---- MODULE Spec2Model ----
(***************************************************************************)
(* Model of the QA Processor Plus insight-extraction pipeline              *)
(* (reddit_market_research/qa_processor_plus).                             *)
(*                                                                         *)
(* Python str values are modelled as sequences of one-character strings,   *)
(* so that splitting, stripping, substring search and slicing are computed *)
(* the way the code computes them.  Python dicts are functions whose       *)
(* DOMAIN is the set of keys that are present.  Floats that the code       *)
(* produces by dividing two small integers are kept as exact fractions     *)
(* <<numerator, denominator>>; round(x, 3) yields thousandths.             *)
(***************************************************************************)
EXTENDS Integers, Sequences, FiniteSets, TLC

VARIABLES
    pc,             \* which call the driver is at
    objects,        \* InputFilter: the list handed to filter_objects
    filterConfig,   \* InputFilter: the config dict given to __init__
    filtered,       \* InputFilter: the list filter_objects returned
    question,       \* PainSpanExtractor: the question handed to extract_spans
    spanConfig,     \* PainSpanExtractor: the config dict given to __init__
    spans,          \* PainSpanExtractor: the list extract_spans returned
    spanAreas,      \* what ProductAreaClassifier.classify returned per span
    classifyText,   \* classifiers: the text handed to classify
    classifyConfig, \* classifiers: the config dict given to __init__
    stageOrder,     \* the order in which STAGE_KEYWORDS.items() is iterated
    areaScores,     \* ProductAreaClassifier.classify: its scores dict
    areaResult,     \* ProductAreaClassifier.classify: the returned tuple
    stageScores,    \* JourneyStageClassifier.classify: its scores dict
    stageBest,      \* JourneyStageClassifier.classify: best_stage, best_score
    stageResult,    \* JourneyStageClassifier.classify: the returned tuple
    conversation,   \* SolutionExtractorV2: the conversation handed over
    solutions,      \* SolutionExtractorV2: the list extract_solutions returned
    metadata,       \* HDBSCANClustering: the metadata list, one item per vector
    clusterConfig,  \* HDBSCANClustering: the config dict given to __init__
    clusterResult,  \* HDBSCANClustering: the dict cluster returned
    labels,         \* ClusterQualityMetrics: the label array handed over
    metrics,        \* ClusterQualityMetrics: the dict compute returned
    evidenceCap,    \* the evidence cap the configuration of the run names
    evidence,       \* InsightCardGenerator: the spans handed over
    card,           \* InsightCardGenerator: the card returned
    cards,          \* LegacyAdapter: the cards handed over
    legacy,         \* LegacyAdapter: the dict returned
    conversations,  \* EvidencePreservingGrouper: the conversations handed over
    grouped,        \* EvidencePreservingGrouper: the list returned
    managers,       \* LanceDBManager: the instances, by run identifier
    db,             \* LanceDB: the tables of the database, by name
    clock,          \* what datetime.utcnow() returns next
    lastCall,       \* LanceDBManager: the last call made and how it ended
    runState,       \* the run of each instance: "running" or "aborted"
    synth,          \* OllamaLLMSynthesizer: the instance
    synthesized,    \* the clusters a generation request was sent for
    synthResult     \* OllamaLLMSynthesizer: the last call and what it returned

filterVars == <<objects, filterConfig, filtered>>

extractVars == <<question, spanConfig, spans, spanAreas>>

classifyVars == <<classifyText, classifyConfig, stageOrder, areaScores,
                  areaResult, stageScores, stageBest, stageResult>>

solutionVars == <<conversation, solutions>>

clusterVars == <<metadata, clusterConfig, clusterResult, labels, metrics>>

insightVars == <<evidenceCap, evidence, card>>

legacyVars == <<cards, legacy>>

groupVars == <<conversations, grouped>>

storeVars == <<managers, db, clock, lastCall, runState>>

synthVars == <<synth, synthesized, synthResult>>

\* the components modelled first, and the ones modelled after them
firstVars == <<filterVars, extractVars, classifyVars>>

laterVars == <<solutionVars, clusterVars, insightVars, legacyVars, groupVars,
               storeVars, synthVars>>

vars == <<pc, firstVars, laterVars>>

\* the components a run does not use stay as constructed
FilterUnused == objects = <<>> /\ filterConfig = <<>> /\ filtered = <<>>

ExtractUnused ==
    question = <<>> /\ spanConfig = <<>> /\ spans = <<>> /\ spanAreas = <<>>

ClassifyUnused ==
    /\ classifyText = <<>> /\ classifyConfig = <<>> /\ stageOrder = <<>>
    /\ areaScores = <<>> /\ areaResult = <<>> /\ stageScores = <<>>
    /\ stageBest = <<>> /\ stageResult = <<>>

SolutionUnused == conversation = <<>> /\ solutions = <<>>

ClusterUnused ==
    metadata = <<>> /\ clusterConfig = <<>> /\ clusterResult = <<>>
    /\ labels = <<>> /\ metrics = <<>>

InsightUnused == evidenceCap = 0 /\ evidence = <<>> /\ card = <<>>

LegacyUnused == cards = <<>> /\ legacy = <<>>

GroupUnused == conversations = <<>> /\ grouped = <<>>

StoreUnused ==
    /\ managers = <<>> /\ db = <<>> /\ clock = 0 /\ lastCall = <<>>
    /\ runState = <<>>

SynthUnused == synth = <<>> /\ synthesized = {} /\ synthResult = <<>>

FirstUnused == FilterUnused /\ ExtractUnused /\ ClassifyUnused

LaterUnused ==
    /\ SolutionUnused /\ ClusterUnused /\ InsightUnused /\ LegacyUnused
    /\ GroupUnused /\ StoreUnused /\ SynthUnused

----------------------------------------------------------------------------
(* Bounds of the model *)

MaxObjects == 2

MaxFragments == 2

MaxWords == 2

----------------------------------------------------------------------------
(* Python built-ins used by the pipeline *)

None == "None"

Min2(a, b) == IF a <= b THEN a ELSE b

Max2(a, b) == IF a >= b THEN a ELSE b

SetMin(S) == CHOOSE x \in S : \A y \in S : x <= y

SetMax(S) == CHOOSE x \in S : \A y \in S : x >= y

\* dict.get(key, default)
Get(d, key, default) == IF key \in DOMAIN d THEN d[key] ELSE default

\* dict[key] = value
DictSet(d, key, value) == (key :> value) @@ d

\* x in list
InList(x, list) == \E i \in 1..Len(list) : list[i] = x

Whitespace == {" ", "\t", "\n"}

UpperAlpha == <<"A","B","C","D","E","F","G","H","I","J","K","L","M",
                "N","O","P","Q","R","S","T","U","V","W","X","Y","Z">>

LowerAlpha == <<"a","b","c","d","e","f","g","h","i","j","k","l","m",
                "n","o","p","q","r","s","t","u","v","w","x","y","z">>

UpperSet == {UpperAlpha[i] : i \in 1..26}

LowerChar(c) ==
    IF c \in UpperSet
    THEN LowerAlpha[CHOOSE i \in 1..26 : UpperAlpha[i] = c]
    ELSE c

\* str.lower()
Lower(s) == [i \in 1..Len(s) |-> LowerChar(s[i])] \o <<>>

\* sub in s
Contains(s, sub) ==
    IF sub = <<>> THEN TRUE
    ELSE \E i \in 0..(Len(s) - Len(sub)) :
            /\ s[i + 1] = sub[1]
            /\ SubSeq(s, i + 1, i + Len(sub)) = sub

\* str.strip()
Strip(s) ==
    LET keep == {i \in 1..Len(s) : s[i] \notin Whitespace}
    IN  IF keep = {} THEN <<>> ELSE SubSeq(s, SetMin(keep), SetMax(keep))

\* len(s.split()): the number of maximal runs of non-whitespace characters
WordCount(s) ==
    Cardinality({i \in 1..Len(s) :
        /\ s[i] \notin Whitespace
        /\ (i = 1 \/ s[i - 1] \in Whitespace)})

\* s[:n], with Python's meaning of a negative n
SliceTo(s, n) ==
    IF n >= 0 THEN SubSeq(s, 1, Min2(n, Len(s)))
    ELSE SubSeq(s, 1, Max2(Len(s) + n, 0))

----------------------------------------------------------------------------
(* InputFilter  (filter.py) *)

DefaultSentiments == <<"negative", "neutral">>

DefaultCategories == <<"Question", "Complaint", "Suggestion">>

\* InputFilter.__init__
InputFilterInit(config) ==
    [min_upvotes        |-> Get(config, "min_upvotes", 5),
     min_word_count     |-> Get(config, "min_word_count", 10),
     allowed_sentiments |-> Get(config, "sentiment", DefaultSentiments),
     allowed_categories |-> Get(config, "categories", DefaultCategories)]

\* the checks with a strict comparison of the upvotes
FilterChecksStrictUpvotes(self, obj) ==
    LET up == Get(obj, "upvotes", 0) > self.min_upvotes
        wc == WordCount(Get(obj, "text", <<>>)) >= self.min_word_count
        se == InList(Get(obj, "sentiment", "neutral"), self.allowed_sentiments)
        ca == InList(Get(obj, "category", "Question"), self.allowed_categories)
    IN  [passed_upvotes    |-> up,
         passed_word_count |-> wc,
         passed_sentiment  |-> se,
         passed_category   |-> ca,
         passed_all        |-> up /\ wc /\ se /\ ca]

\* the four checks of one iteration of the loop of filter_objects
FilterChecks(self, obj) ==
    LET upvotes    == Get(obj, "upvotes", 0)
        txt        == Get(obj, "text", <<>>)
        word_count == WordCount(txt)
        sentiment  == Get(obj, "sentiment", "neutral")
        category   == Get(obj, "category", "Question")
        up == upvotes >= self.min_upvotes
        wc == word_count >= self.min_word_count
        se == InList(sentiment, self.allowed_sentiments)
        ca == InList(category, self.allowed_categories)
    IN  [passed_upvotes    |-> up,
         passed_word_count |-> wc,
         passed_sentiment  |-> se,
         passed_category   |-> ca,
         passed_all        |-> up /\ wc /\ se /\ ca]

\* a loop tail that never sets passed_all
AnnotateWithoutPassedAll(obj, filter_metadata) ==
    IF filter_metadata.passed_all
    THEN DictSet(obj, "_filter_metadata",
                 [filter_metadata EXCEPT !.passed_all = FALSE])
    ELSE obj

\* a loop tail that stores the map on every record
AnnotateEvery(obj, filter_metadata) ==
    DictSet(obj, "_filter_metadata", filter_metadata)

\* the tail of the loop body: only a record that passed every check gets
\* the _filter_metadata key
Annotate(obj, filter_metadata) ==
    IF filter_metadata.passed_all
    THEN DictSet(obj, "_filter_metadata", filter_metadata)
    ELSE obj

\* the objects after the loop (the loop mutates the caller's records)
ObjectsAfterFilter(self, objs) ==
    [i \in 1..Len(objs) |-> Annotate(objs[i], FilterChecks(self, objs[i]))]

\* the list filter_objects returns: the passing records, in input order
RECURSIVE FilterLoop(_, _, _)
FilterLoop(self, objs, i) ==
    IF i > Len(objs) THEN <<>>
    ELSE LET md == FilterChecks(self, objs[i])
         IN  IF md.passed_all
             THEN <<Annotate(objs[i], md)>> \o FilterLoop(self, objs, i + 1)
             ELSE FilterLoop(self, objs, i + 1)

----------------------------------------------------------------------------
(* Numbers: a float is kept as the exact fraction <<numerator, denominator>> *)

Frac(n, d) == <<n, d>>

Zero == Frac(0, 1)

One == Frac(1, 1)

FracLT(a, b) == a[1] * b[2] < b[1] * a[2]

FracLE(a, b) == a[1] * b[2] <= b[1] * a[2]

FracGT(a, b) == FracLT(b, a)

FracEQ(a, b) == a[1] * b[2] = b[1] * a[2]

\* round(n / d, 3), in thousandths (ties go to the even neighbour)
Round3(n, d) ==
    LET q == (1000 * n) \div d
        r == (1000 * n) % d
    IN  IF 2 * r < d THEN Frac(q, 1000)
        ELSE IF 2 * r > d THEN Frac(q + 1, 1000)
        ELSE IF q % 2 = 0 THEN Frac(q, 1000) ELSE Frac(q + 1, 1000)

----------------------------------------------------------------------------
(* PainSpanExtractor  (span_extractor.py) *)

PAIN_KEYWORDS ==
    << [name |-> "error", keywords |->
         << <<"e", "r", "r", "o", "r">>,
            <<"e", "x", "c", "e", "p", "t", "i", "o", "n">>,
            <<"f", "a", "i", "l">>,
            <<"c", "r", "a", "s", "h">>,
            <<"b", "u", "g">>,
            <<"i", "s", "s", "u", "e">>,
            <<"p", "r", "o", "b", "l", "e", "m">>,
            <<"b", "r", "o", "k", "e", "n">> >>],
       [name |-> "performance", keywords |->
         << <<"s", "l", "o", "w">>,
            <<"l", "a", "g">>,
            <<"t", "i", "m", "e", "o", "u", "t">>,
            <<"h", "a", "n", "g">>,
            <<"f", "r", "e", "e", "z", "e">>,
            <<"p", "e", "r", "f", "o", "r", "m", "a", "n", "c", "e">>,
            <<"l", "a", "t", "e", "n", "c", "y">>,
            <<"t", "h", "r", "o", "u", "g", "h", "p", "u", "t">> >>],
       [name |-> "usability", keywords |->
         << <<"c", "o", "n", "f", "u", "s", "i", "n", "g">>,
            <<"u", "n", "c", "l", "e", "a", "r">>,
            <<"h", "a", "r", "d">>,
            <<"d", "i", "f", "f", "i", "c", "u", "l", "t">>,
            <<"c", "o", "m", "p", "l", "e", "x">>,
            <<"c", "o", "m", "p", "l", "i", "c", "a", "t", "e", "d">>,
            <<"u", "n", "i", "n", "t", "u", "i", "t", "i", "v", "e">> >>],
       [name |-> "compatibility", keywords |->
         << <<"i", "n", "c", "o", "m", "p", "a", "t", "i", "b", "l", "e">>,
            <<"n", "o", "t", " ", "w", "o", "r", "k", "i", "n", "g">>,
            <<"d", "o", "e", "s", "n", "'", "t", " ", "w", "o", "r", "k">>,
            <<"c", "o", "n", "f", "l", "i", "c", "t">>,
            <<"c", "o", "m", "p", "a", "t", "i", "b", "i", "l", "i", "t", "y">> >>],
       [name |-> "cost", keywords |->
         << <<"e", "x", "p", "e", "n", "s", "i", "v", "e">>,
            <<"c", "o", "s", "t", "l", "y">>,
            <<"p", "r", "i", "c", "e">>,
            <<"b", "i", "l", "l", "i", "n", "g">>,
            <<"o", "v", "e", "r", "c", "h", "a", "r", "g", "e">>,
            <<"f", "e", "e">>,
            <<"s", "u", "b", "s", "c", "r", "i", "p", "t", "i", "o", "n">> >>] >>

PROMOTIONAL_TERMS ==
    << <<"l", "o", "v", "e">>,
       <<"a", "m", "a", "z", "i", "n", "g">>,
       <<"g", "r", "e", "a", "t">>,
       <<"a", "w", "e", "s", "o", "m", "e">>,
       <<"w", "o", "n", "d", "e", "r", "f", "u", "l">>,
       <<"e", "x", "c", "e", "l", "l", "e", "n", "t">>,
       <<"p", "e", "r", "f", "e", "c", "t">> >>

\* PainSpanExtractor.__init__
PainSpanExtractorInit(config) ==
    [max_span_length        |-> Get(config, "max_span_length", 200),
     max_spans_per_question |-> Get(config, "max_spans_per_question", 3),
     min_span_words         |-> Get(config, "min_span_words", 5)]

SentenceEnd == {".", "!", "?"}

\* the first index from i on that is not a sentence terminator
SkipRun(s, i) ==
    SetMin({k \in i..(Len(s) + 1) : k = Len(s) + 1 \/ s[k] \notin SentenceEnd})

\* re.split(r'[.!?]+', text): the pieces between the runs of terminators,
\* the empty pieces at either end included
RECURSIVE SplitFrom(_, _)
SplitFrom(s, i) ==
    LET ends == {j \in i..Len(s) : s[j] \in SentenceEnd}
    IN  IF ends = {} THEN <<SubSeq(s, i, Len(s))>>
        ELSE <<SubSeq(s, i, SetMin(ends) - 1)>>
             \o SplitFrom(s, SkipRun(s, SetMin(ends)))

SplitSentences(txt) == SplitFrom(txt, 1)

\* sentence.endswith(suffix)
EndsWith(s, c) == Len(s) >= 1 /\ s[Len(s)] = c

\* a promotional test that rejects nothing
IsPromotionalNever(sentence) == FALSE

\* PainSpanExtractor._is_promotional
IsPromotional(sentence) ==
    LET sentence_lower == Lower(sentence)
    IN  \E i \in 1..Len(PROMOTIONAL_TERMS) :
            /\ Contains(sentence_lower, PROMOTIONAL_TERMS[i])
            /\ \E j \in 1..Len(PROMOTIONAL_TERMS) :
                   Contains(sentence_lower, PROMOTIONAL_TERMS[j])

\* PainSpanExtractor._has_pain_keyword
HasPainKeyword(sentence) ==
    LET sentence_lower == Lower(sentence)
    IN  \E c \in 1..Len(PAIN_KEYWORDS) :
            \E k \in 1..Len(PAIN_KEYWORDS[c].keywords) :
                Contains(sentence_lower, PAIN_KEYWORDS[c].keywords[k])

\* the keywords of the categories from c on, in iteration order
RECURSIVE KeywordsFrom(_, _)
KeywordsFrom(tbl, c) ==
    IF c > Len(tbl) THEN <<>> ELSE tbl[c].keywords \o KeywordsFrom(tbl, c + 1)

\* the elements of list at the indices of keep, in order
Pick(list, keep) ==
    [k \in 1..Cardinality(keep) |->
        list[CHOOSE i \in keep : Cardinality({j \in keep : j < i}) = k - 1]]
    \o <<>>

\* PainSpanExtractor._find_pain_keywords: the keywords found in the
\* sentence, in iteration order, each once
FindPainKeywords(sentence) ==
    LET sentence_lower == Lower(sentence)
        kws == KeywordsFrom(PAIN_KEYWORDS, 1)
    IN  Pick(kws, {i \in 1..Len(kws) :
                     /\ Contains(sentence_lower, kws[i])
                     /\ \A j \in 1..(i - 1) : kws[j] # kws[i]})

\* a confidence without the cap at 1.0
CalculateConfidenceUncapped(sentence, pain_keywords) ==
    LET num_keywords == Len(pain_keywords)
        num_words    == WordCount(sentence)
    IN  IF num_words = 0 THEN Zero
        ELSE Round3(10 * num_keywords, num_words)

\* PainSpanExtractor._calculate_confidence:
\* round(min(num_keywords / (num_words / 10.0), 1.0), 3)
CalculateConfidence(sentence, pain_keywords) ==
    LET num_keywords == Len(pain_keywords)
        num_words    == WordCount(sentence)
    IN  IF num_words = 0 THEN Zero
        ELSE IF 10 * num_keywords >= num_words THEN Round3(1, 1)
        ELSE Round3(10 * num_keywords, num_words)

\* the dict appended to spans
MakeSpan(self, q, sentence, pain_keywords) ==
    [text          |-> SliceTo(sentence, self.max_span_length),
     sentence      |-> sentence,
     pain_keywords |-> pain_keywords,
     confidence    |-> CalculateConfidence(sentence, pain_keywords),
     post_id       |-> Get(q, "post_id", None),
     post_url      |-> Get(q, "post_url", None)]

\* the loop over the sentences; the cap is tested after the append
RECURSIVE SentenceLoop(_, _, _, _, _)
SentenceLoop(self, q, sentences, i, acc) ==
    IF i > Len(sentences) THEN acc
    ELSE LET sentence == Strip(sentences[i])
             skip     == SentenceLoop(self, q, sentences, i + 1, acc)
         IN  IF sentence = <<>> THEN skip
             ELSE IF WordCount(sentence) < self.min_span_words THEN skip
             ELSE IF IsPromotional(sentence) THEN skip
             ELSE IF EndsWith(sentence, "?") /\ ~HasPainKeyword(sentence)
                  THEN skip
             ELSE LET pain_keywords == FindPainKeywords(sentence)
                  IN  IF pain_keywords # <<>>
                      THEN LET added == Append(acc,
                                   MakeSpan(self, q, sentence,
                                            pain_keywords))
                           IN  IF Len(added) >= self.max_spans_per_question
                               THEN added
                               ELSE SentenceLoop(self, q, sentences,
                                                 i + 1, added)
                      ELSE skip

\* an extractor that reads the text from the key body
ExtractSpansFromBody(self, q) ==
    LET sentiment == Get(q, "sentiment", "neutral")
    IN  IF ~InList(sentiment, <<"negative", "neutral">>) THEN <<>>
        ELSE SentenceLoop(self, q,
                          SplitSentences(Get(q, "body", <<>>)), 1, <<>>)

\* an extractor without the question-level sentiment guard
ExtractSpansNoGuard(self, q) ==
    SentenceLoop(self, q,
                 SplitSentences(Get(q, "text", <<>>)), 1, <<>>)

\* PainSpanExtractor.extract_spans
ExtractSpans(self, q) ==
    LET sentiment == Get(q, "sentiment", "neutral")
    IN  IF ~InList(sentiment, <<"negative", "neutral">>) THEN <<>>
        ELSE SentenceLoop(self, q,
                          SplitSentences(Get(q, "text", <<>>)), 1, <<>>)

----------------------------------------------------------------------------
(* ProductAreaClassifier and JourneyStageClassifier  (classifier.py) *)

PRODUCT_AREA_KEYWORDS ==
    << [name |-> "deployment", keywords |->
         << <<"d", "e", "p", "l", "o", "y">>,
            <<"d", "e", "p", "l", "o", "y", "m", "e", "n", "t">>,
            <<"r", "e", "l", "e", "a", "s", "e">>,
            <<"r", "o", "l", "l", "o", "u", "t">>,
            <<"p", "r", "o", "d", "u", "c", "t", "i", "o", "n">>,
            <<"s", "t", "a", "g", "i", "n", "g">> >>],
       [name |-> "reliability", keywords |->
         << <<"c", "r", "a", "s", "h">>,
            <<"d", "o", "w", "n">>,
            <<"o", "u", "t", "a", "g", "e">>,
            <<"d", "o", "w", "n", "t", "i", "m", "e">>,
            <<"e", "r", "r", "o", "r">>,
            <<"f", "a", "i", "l">>,
            <<"t", "i", "m", "e", "o", "u", "t">> >>],
       [name |-> "performance", keywords |->
         << <<"s", "l", "o", "w">>,
            <<"l", "a", "g">>,
            <<"l", "a", "t", "e", "n", "c", "y">>,
            <<"p", "e", "r", "f", "o", "r", "m", "a", "n", "c", "e">>,
            <<"t", "h", "r", "o", "u", "g", "h", "p", "u", "t">>,
            <<"c", "p", "u">>,
            <<"m", "e", "m", "o", "r", "y">> >>],
       [name |-> "pricing_billing", keywords |->
         << <<"p", "r", "i", "c", "e">>,
            <<"p", "r", "i", "c", "i", "n", "g">>,
            <<"b", "i", "l", "l", "i", "n", "g">>,
            <<"c", "o", "s", "t">>,
            <<"s", "u", "b", "s", "c", "r", "i", "p", "t", "i", "o", "n">>,
            <<"c", "h", "a", "r", "g", "e">>,
            <<"f", "e", "e">> >>],
       [name |-> "data_management", keywords |->
         << <<"d", "a", "t", "a">>,
            <<"d", "a", "t", "a", "b", "a", "s", "e">>,
            <<"b", "a", "c", "k", "u", "p">>,
            <<"r", "e", "c", "o", "v", "e", "r", "y">>,
            <<"c", "o", "r", "r", "u", "p", "t", "i", "o", "n">>,
            <<"l", "o", "s", "s">> >>],
       [name |-> "security", keywords |->
         << <<"s", "e", "c", "u", "r", "i", "t", "y">>,
            <<"a", "u", "t", "h">>,
            <<"p", "e", "r", "m", "i", "s", "s", "i", "o", "n">>,
            <<"e", "n", "c", "r", "y", "p", "t", "i", "o", "n">>,
            <<"v", "u", "l", "n", "e", "r", "a", "b", "i", "l", "i", "t", "y">>,
            <<"b", "r", "e", "a", "c", "h">> >>],
       [name |-> "usability", keywords |->
         << <<"u", "i">>,
            <<"u", "x">>,
            <<"c", "o", "n", "f", "u", "s", "i", "n", "g">>,
            <<"u", "n", "c", "l", "e", "a", "r">>,
            <<"i", "n", "t", "e", "r", "f", "a", "c", "e">>,
            <<"w", "o", "r", "k", "f", "l", "o", "w">> >>] >>

STAGE_PRIORITY ==
    <<"shipping", "scaling", "building", "first_use", "evaluation",
      "troubleshooting">>

STAGE_KEYWORDS ==
    << [name |-> "shipping", keywords |->
         << <<"s", "h", "i", "p">>,
            <<"s", "h", "i", "p", "p", "e", "d">>,
            <<"d", "e", "l", "i", "v", "e", "r", "y">>,
            <<"d", "e", "l", "i", "v", "e", "r">>,
            <<"a", "r", "r", "i", "v", "a", "l">>,
            <<"r", "e", "c", "e", "i", "v", "e", "d">>,
            <<"a", "r", "r", "i", "v", "e", "d">> >>],
       [name |-> "scaling", keywords |->
         << <<"s", "c", "a", "l", "e">>,
            <<"s", "c", "a", "l", "i", "n", "g">>,
            <<"g", "r", "o", "w", "t", "h">>,
            <<"s", "c", "a", "l", "e", " ", "u", "p">>,
            <<"h", "a", "n", "d", "l", "e", " ", "l", "o", "a", "d">>,
            <<"g", "r", "o", "w", "t", "h">> >>],
       [name |-> "building", keywords |->
         << <<"b", "u", "i", "l", "d">>,
            <<"b", "u", "i", "l", "d", "i", "n", "g">>,
            <<"d", "e", "v", "e", "l", "o", "p">>,
            <<"d", "e", "v", "e", "l", "o", "p", "i", "n", "g">>,
            <<"i", "m", "p", "l", "e", "m", "e", "n", "t", "a", "t", "i", "o", "n">>,
            <<"a", "r", "c", "h", "i", "t", "e", "c", "t">> >>],
       [name |-> "first_use", keywords |->
         << <<"f", "i", "r", "s", "t", " ", "t", "i", "m", "e">>,
            <<"g", "e", "t", "t", "i", "n", "g", " ", "s", "t", "a", "r", "t", "e", "d">>,
            <<"o", "n", "b", "o", "a", "r", "d", "i", "n", "g">>,
            <<"n", "e", "w", " ", "u", "s", "e", "r">>,
            <<"f", "i", "r", "s", "t", " ", "r", "u", "n">>,
            <<"s", "e", "t", "u", "p">> >>],
       [name |-> "evaluation", keywords |->
         << <<"e", "v", "a", "l", "u", "a", "t", "e">>,
            <<"e", "v", "a", "l", "u", "a", "t", "e">>,
            <<"c", "o", "n", "s", "i", "d", "e", "r", "i", "n", "g">>,
            <<"t", "r", "y", "i", "n", "g", " ", "o", "u", "t">>,
            <<"t", "e", "s", "t">>,
            <<"p", "o", "c">> >>],
       [name |-> "troubleshooting", keywords |->
         << <<"t", "r", "o", "u", "b", "l", "e", "s", "h", "o", "o", "t">>,
            <<"d", "e", "b", "u", "g">>,
            <<"f", "i", "x">>,
            <<"i", "s", "s", "u", "e">>,
            <<"p", "r", "o", "b", "l", "e", "m">>,
            <<"e", "r", "r", "o", "r">> >>] >>

\* sum(1 for kw in keywords if kw in text_lower)
MatchedCount(keywords, text_lower) ==
    Cardinality({k \in 1..Len(keywords) : Contains(text_lower, keywords[k])})

\* scores[key] of a dict kept as the list of its items in insertion order
Lookup(items, key) ==
    items[CHOOSE i \in 1..Len(items) : items[i].name = key].score

\* ProductAreaClassifier.__init__
ProductAreaClassifierInit(config) ==
    [min_confidence |-> Get(config, "min_product_area_confidence", Frac(3, 10))]

\* the score of one product area with no minimum number of matches
AreaScoreNoMinimum(keywords, text_lower) ==
    Frac(MatchedCount(keywords, text_lower), Len(keywords))

\* the score the first loop of ProductAreaClassifier.classify gives an area
AreaScore(keywords, text_lower) ==
    LET matched_count == MatchedCount(keywords, text_lower)
    IN  IF matched_count < 2 THEN Zero
        ELSE Frac(matched_count, Len(keywords))

\* the scores dict of ProductAreaClassifier.classify
RECURSIVE AreaScoresFrom(_, _)
AreaScoresFrom(text_lower, a) ==
    IF a > Len(PRODUCT_AREA_KEYWORDS) THEN <<>>
    ELSE <<[name  |-> PRODUCT_AREA_KEYWORDS[a].name,
            score |-> AreaScore(PRODUCT_AREA_KEYWORDS[a].keywords, text_lower)]>>
         \o AreaScoresFrom(text_lower, a + 1)

AreaScores(txt) == AreaScoresFrom(Lower(txt), 1)

\* the loop that keeps the first item whose score exceeds the best so far
RECURSIVE BestItem(_, _, _)
BestItem(items, i, best) ==
    IF i > Len(items) THEN best
    ELSE IF FracGT(items[i].score, best.score)
         THEN BestItem(items, i + 1, items[i])
         ELSE BestItem(items, i + 1, best)

\* a return that skips the threshold test
ApplyThresholdSkipped(self, best) ==
    [category |-> best.name,
     confidence |-> Round3(best.score[1], best.score[2])]

\* the threshold test and the returned tuple, common to both classifiers
ApplyThreshold(self, best) ==
    IF FracLT(best.score, self.min_confidence)
    THEN [category |-> None, confidence |-> best.score]
    ELSE [category |-> best.name,
          confidence |-> Round3(best.score[1], best.score[2])]

\* ProductAreaClassifier.classify
ClassifyProductArea(self, txt) ==
    ApplyThreshold(self,
        BestItem(AreaScores(txt), 1, [name |-> None, score |-> Zero]))

\* JourneyStageClassifier.__init__
JourneyStageClassifierInit(config) ==
    [min_confidence |-> Get(config, "min_journey_stage_confidence", Frac(4, 10))]

\* a stage score that needs two matches, as the product-area score does
StageScoreMinimumTwo(keywords, text_lower) ==
    IF MatchedCount(keywords, text_lower) < 2 THEN Zero
    ELSE Frac(MatchedCount(keywords, text_lower), Len(keywords))

\* the score the first loop of JourneyStageClassifier.classify gives a stage
StageScore(keywords, text_lower) ==
    IF Len(keywords) > 0
    THEN Frac(MatchedCount(keywords, text_lower), Len(keywords))
    ELSE Zero

\* the scores dict of JourneyStageClassifier.classify, filled in the order
\* in which STAGE_KEYWORDS.items() is iterated
RECURSIVE StageScoresFrom(_, _, _)
StageScoresFrom(text_lower, order, k) ==
    IF k > Len(order) THEN <<>>
    ELSE <<[name  |-> STAGE_KEYWORDS[order[k]].name,
            score |-> StageScore(STAGE_KEYWORDS[order[k]].keywords,
                                 text_lower)]>>
         \o StageScoresFrom(text_lower, order, k + 1)

StageScores(txt, order) == StageScoresFrom(Lower(txt), order, 1)

\* a selection loop that walks the scores dict instead of STAGE_PRIORITY
BestStageByTableOrder(scores) ==
    BestItem(scores, 1, [name |-> None, score |-> Zero])

\* the loop over STAGE_PRIORITY: best_stage and best_score after it
RECURSIVE BestByPriority(_, _, _)
BestByPriority(scores, p, best) ==
    IF p > Len(STAGE_PRIORITY) THEN best
    ELSE IF FracGT(Lookup(scores, STAGE_PRIORITY[p]), best.score)
         THEN BestByPriority(scores, p + 1,
                  [name  |-> STAGE_PRIORITY[p],
                   score |-> Lookup(scores, STAGE_PRIORITY[p])])
         ELSE BestByPriority(scores, p + 1, best)

BestStage(scores) == BestByPriority(scores, 1, [name |-> None, score |-> Zero])

\* JourneyStageClassifier.classify
ClassifyJourneyStage(self, txt, order) ==
    ApplyThreshold(self, BestStage(StageScores(txt, order)))

----------------------------------------------------------------------------
(* Inputs and calls of InputFilter *)

ThreeWords == <<"a", "p", "p", " ", "i", "s", " ", "s", "l", "o", "w">>

TenWords == <<"i", "t", " ", "i", "s", " ", "s", "o", " ", "s", "l", "o", "w",
              " ", "a", "n", "d", " ", "i", "t", " ", "l", "a", "g", "s",
              " ", "a", " ", "l", "o", "t">>

\* a dict with the keys of present, taken from full
Restrict(full, present) == [k \in present |-> full[k]]

\* the records the model hands to filter_objects; "id" stands for the
\* identity of the Python object
FilterFieldKeys == {"upvotes", "text", "sentiment", "category"}

FilterRecords ==
    { Restrict([upvotes |-> 5, text |-> t, sentiment |-> "positive",
                category |-> "Answer"], present) :
        t \in {ThreeWords, TenWords}, present \in SUBSET FilterFieldKeys }

FilterConfigKeys == {"min_upvotes", "min_word_count", "sentiment", "categories"}

FilterConfigs ==
    { Restrict([min_upvotes |-> u, min_word_count |-> w,
                sentiment |-> <<"positive">>, categories |-> <<"Answer">>],
               present) :
        u \in {0, 6}, w \in {0, 4},
        present \in {{}, {"min_upvotes", "min_word_count"}, FilterConfigKeys} }

WithId(rec, i) == DictSet(rec, "id", i)

InitFilter ==
    /\ pc = "filter"
    /\ filterConfig \in FilterConfigs
    /\ \E n \in 0..MaxObjects :
         \E recs \in [1..n -> FilterRecords] :
            objects = [i \in 1..n |-> WithId(recs[i], i)]
    /\ filtered = <<>>
    /\ ExtractUnused
    /\ ClassifyUnused
    /\ LaterUnused

\* filtered = InputFilter(config).filter_objects(objects)
FilterObjects ==
    /\ pc = "filter"
    /\ LET self == InputFilterInit(filterConfig)
       IN  /\ filtered' = FilterLoop(self, objects, 1)
           /\ objects' = ObjectsAfterFilter(self, objects)
    /\ pc' = "filtered"
    /\ UNCHANGED <<filterConfig, extractVars, classifyVars, laterVars>>

NextFilter == FilterObjects

SpecFilter == InitFilter /\ [][NextFilter]_vars

\* the positions of the input list whose record was returned
ReturnedIds == {filtered[j].id : j \in 1..Len(filtered)}

\* C1: filter_objects returns only members of the input list, each at most
\* once, and every returned record carries filter metadata whose passed_all
\* is True.
C1_OutputSubsetOfInput ==
    pc = "filtered" =>
        /\ \A j \in 1..Len(filtered) :
              /\ \E i \in 1..Len(objects) : filtered[j] = objects[i]
              /\ "_filter_metadata" \in DOMAIN filtered[j]
              /\ filtered[j]["_filter_metadata"].passed_all = TRUE
        /\ \A j, k \in 1..Len(filtered) :
              j # k => filtered[j].id # filtered[k].id

\* a call that returned one record and dropped another
C1_Witness ==
    /\ pc = "filtered"
    /\ Len(objects) = 2
    /\ Len(filtered) = 1

\* what the four checks are meant to decide, with the value an absent field
\* counts as written out
PassesAllFour(obj) ==
    LET self == InputFilterInit(filterConfig)
        upvotes   == IF "upvotes" \in DOMAIN obj THEN obj.upvotes ELSE 0
        words     == IF "text" \in DOMAIN obj THEN WordCount(obj.text) ELSE 0
        sentiment == IF "sentiment" \in DOMAIN obj THEN obj.sentiment
                     ELSE "neutral"
        category  == IF "category" \in DOMAIN obj THEN obj.category
                     ELSE "Question"
    IN  /\ ~(upvotes < self.min_upvotes)
        /\ ~(words < self.min_word_count)
        /\ \E k \in DOMAIN self.allowed_sentiments :
              self.allowed_sentiments[k] = sentiment
        /\ \E k \in DOMAIN self.allowed_categories :
              self.allowed_categories[k] = category

\* C2: a record is returned if and only if all four checks pass, an absent
\* field counting as 0 upvotes, empty text, sentiment neutral and category
\* Question; the call completes on every input.
C2_ReturnedIffAllChecksPass ==
    /\ pc = "filter" => ENABLED FilterObjects
    /\ pc = "filtered" =>
          \A i \in 1..Len(objects) :
              (i \in ReturnedIds) <=> PassesAllFour(objects[i])

\* a record none of whose fields is present was evaluated and returned, next
\* to a record that was rejected
C2_Witness ==
    /\ pc = "filtered"
    /\ \E j \in 1..Len(filtered) :
          DOMAIN filtered[j] = {"id", "_filter_metadata"}
    /\ \E i \in 1..Len(objects) :
          /\ i \notin ReturnedIds
          /\ DOMAIN objects[i] # {"id"}

\* C3 as stated: after the call every evaluated record, the rejected ones
\* included, carries the per-filter pass/fail map.
C3_EveryRecordAnnotated ==
    pc = "filtered" =>
        \A i \in 1..Len(objects) : "_filter_metadata" \in DOMAIN objects[i]

\* C3: after the call a record carries the per-filter pass/fail map exactly
\* when it passed all four checks and was returned, and every entry of that
\* map is True; a rejected record is left without the map.
C3_OnlyReturnedRecordsAnnotated ==
    pc = "filtered" =>
        \A i \in 1..Len(objects) :
            /\ ("_filter_metadata" \in DOMAIN objects[i]) <=> (i \in ReturnedIds)
            /\ "_filter_metadata" \in DOMAIN objects[i] =>
                  \A k \in DOMAIN objects[i]["_filter_metadata"] :
                      objects[i]["_filter_metadata"][k] = TRUE

\* a call that rejected a record and left it without the map while
\* annotating another
C3_Witness ==
    /\ pc = "filtered"
    /\ \E i \in 1..Len(objects) : "_filter_metadata" \notin DOMAIN objects[i]
    /\ \E i \in 1..Len(objects) : "_filter_metadata" \in DOMAIN objects[i]

----------------------------------------------------------------------------
(* Inputs and calls of PainSpanExtractor *)

ScenarioAText ==
    <<"T", "h", "e", " ", "a", "p", "p", " ", "c", "r", "a", "s", "h", "e", "s", " ", "c", "o", "n", "s", "t", "a", "n", "t", "l", "y", " ", "a", "n", "d", " ", "t", "h", "e", " ", "e", "r", "r", "o", "r", " ", "m", "e", "s", "s", "a", "g", "e", "s", " ", "a", "r", "e", " ", "u", "s", "e", "l", "e", "s", "s", ".">>

LongSentence ==
    <<"i", "t", " ", "i", "s", " ", "s", "o", " ", "h", "a", "r", "d", " ", "t", "o", " ", "s", "e", "e", " ", "w", "h", "a", "t", " ", "t", "h", "i", "s", " ", "a", "p", "p", " ", "d", "o", "e", "s", " ", "f", "o", "r", " ", "m", "e", " ", "n", "o", "w", "!", " ">>

PromoSentence ==
    <<"I", " ", "l", "o", "v", "e", " ", "i", "t", " ", "b", "u", "t", " ", "b", "i", "l", "l", "i", "n", "g", " ", "i", "s", " ", "b", "r", "o", "k", "e", "n">>

PainQuestion ==
    <<" ", "s", "o", " ", "w", "h", "y", " ", "i", "s", " ", "i", "t", " ", "s", "l", "o", "w", "?">>

ShortSentence ==
    <<"t", "o", "o", " ", "s", "l", "o", "w", ".", " ">>

BareQuestion ==
    <<" ", "W", "h", "a", "t", " ", "d", "o", "e", "s", " ", "t", "h", "i", "s", " ", "t", "h", "i", "n", "g", " ", "e", "v", "e", "n", " ", "d", "o", "?", " ">>

Fragments ==
    {ScenarioAText, LongSentence, PromoSentence, PainQuestion, ShortSentence,
     BareQuestion}

RECURSIVE Concat(_)
Concat(parts) == IF parts = <<>> THEN <<>> ELSE Head(parts) \o Concat(Tail(parts))

\* the texts of the questions: up to MaxFragments fragments in a row
QuestionTexts ==
    UNION { {Concat(parts) : parts \in [1..n -> Fragments]} : n \in 0..MaxFragments }

\* the question records: the text under the key text or under the key body
Questions ==
    { Restrict([sentiment |-> s, text |-> t, body |-> t, post_id |-> "t3_1",
                post_url |-> "https://example.com/t3_1"], present) :
        s \in {"negative", "positive"}, t \in QuestionTexts,
        present \in {{"text"}, {"body", "sentiment"}, {"text", "sentiment"},
                     {"text", "sentiment", "post_id", "post_url"}} }

SpanConfigs ==
    { Restrict([max_span_length |-> l, max_spans_per_question |-> m,
                min_span_words |-> 1], present) :
        l \in {0, 10}, m \in {0, 1, 2},
        present \in {{}, {"max_span_length", "max_spans_per_question"},
                     {"max_span_length", "max_spans_per_question",
                      "min_span_words"}} }

InitExtract ==
    /\ pc = "extract"
    /\ question \in Questions
    /\ spanConfig \in SpanConfigs
    /\ spans = <<>>
    /\ spanAreas = <<>>
    /\ FilterUnused
    /\ ClassifyUnused
    /\ LaterUnused

\* spans = PainSpanExtractor(config).extract_spans(question)
CallExtractSpans ==
    /\ pc = "extract"
    /\ spans' = ExtractSpans(PainSpanExtractorInit(spanConfig), question)
    /\ pc' = "extracted"
    /\ UNCHANGED <<question, spanConfig, spanAreas, filterVars, classifyVars,
                   laterVars>>

\* ProductAreaClassifier({}).classify(span['text']) for each span
CallClassifySpans ==
    /\ pc = "extracted"
    /\ spanAreas' = [i \in 1..Len(spans) |->
                        ClassifyProductArea(ProductAreaClassifierInit(<<>>),
                                            spans[i].text)]
    /\ pc' = "classified"
    /\ UNCHANGED <<question, spanConfig, spans, filterVars, classifyVars,
                   laterVars>>

NextExtract == CallExtractSpans \/ CallClassifySpans

SpecExtract == InitExtract /\ [][NextExtract]_vars

\* the extractor as configured for the run
Extractor == PainSpanExtractorInit(spanConfig)

Extracted == pc \in {"extracted", "classified"}

\* C4: every span extract_spans returns has 0.0 <= confidence <= 1.0 and a
\* text no longer than max_span_length.
C4_ConfidenceAndLengthBounded ==
    Extracted =>
        \A i \in 1..Len(spans) :
            /\ FracLE(Zero, spans[i].confidence)
            /\ FracLE(spans[i].confidence, One)
            /\ Len(spans[i].text) <= Extractor.max_span_length

\* a span that was truncated and whose confidence lies strictly between 0
\* and 1, next to a span whose confidence was capped at 1
C4_Witness ==
    /\ Extracted
    /\ \E i \in 1..Len(spans) :
          /\ Len(spans[i].sentence) > Extractor.max_span_length
          /\ Len(spans[i].text) = Extractor.max_span_length
          /\ FracLT(Zero, spans[i].confidence)
          /\ FracLT(spans[i].confidence, One)
    /\ \E i \in 1..Len(spans) :
          /\ 10 * Len(spans[i].pain_keywords) > WordCount(spans[i].sentence)
          /\ FracEQ(spans[i].confidence, One)

\* C5: extract_spans returns an empty list for every question whose
\* sentiment is neither negative nor neutral, whatever its text contains.
C5_NoSpanForPositiveQuestion ==
    (Extracted /\ "sentiment" \in DOMAIN question
               /\ question.sentiment \notin {"negative", "neutral"})
        => spans = <<>>

\* a positive question whose text holds a pain sentence, with no span
C5_Witness ==
    /\ Extracted
    /\ "sentiment" \in DOMAIN question
    /\ question.sentiment = "positive"
    /\ "text" \in DOMAIN question
    /\ \E k \in 1..Len(SplitSentences(question.text)) :
          /\ WordCount(SplitSentences(question.text)[k]) >= Extractor.min_span_words
          /\ HasPainKeyword(SplitSentences(question.text)[k])
          /\ ~IsPromotional(SplitSentences(question.text)[k])
    /\ spans = <<>>

\* C6: for every configured max_spans_per_question, 0 included,
\* extract_spans returns at most max_spans_per_question spans.
C6_AtMostMaxSpans ==
    Extracted => Len(spans) <= Extractor.max_spans_per_question

WCrash == <<"c", "r", "a", "s", "h">>

WError == <<"e", "r", "r", "o", "r">>

\* Scenario A as the claim writes the record: the sentence under the key body
ScenarioABody == [sentiment |-> "negative", body |-> ScenarioAText]

\* Scenario A with the sentence under the key the extractor reads
ScenarioAQuestion == [sentiment |-> "negative", text |-> ScenarioAText]

\* some span matched crash or error and is not classified pricing_billing
CrashOrErrorSpanNotPricing ==
    \E i \in 1..Len(spans) :
        /\ InList(WCrash, spans[i].pain_keywords)
              \/ InList(WError, spans[i].pain_keywords)
        /\ spanAreas[i].category # "pricing_billing"

StrippedSentences(q) ==
    LET pieces == SplitSentences(Get(q, "text", <<>>))
    IN  [i \in 1..Len(pieces) |-> Strip(pieces[i])] \o <<>>

\* the sentence has at least min_span_words words, no promotional term and
\* at least one pain keyword
Qualifies(self, sentence) ==
    /\ sentence # <<>>
    /\ WordCount(sentence) >= self.min_span_words
    /\ \A i \in 1..Len(PROMOTIONAL_TERMS) :
          ~Contains(Lower(sentence), PROMOTIONAL_TERMS[i])
    /\ \E c \in 1..Len(PAIN_KEYWORDS) :
          \E k \in 1..Len(PAIN_KEYWORDS[c].keywords) :
              Contains(Lower(sentence), PAIN_KEYWORDS[c].keywords[k])

\* the qualifying sentences of the question, in text order
QualifyingSentences(self, q) ==
    LET sentences == StrippedSentences(q)
    IN  Pick(sentences,
             {i \in 1..Len(sentences) : Qualifies(self, sentences[i])})

\* the spans are the first max_spans_per_question qualifying sentences
SpansAreFirstQualifying ==
    LET qualifying == QualifyingSentences(Extractor, question)
        n == Min2(Extractor.max_spans_per_question, Len(qualifying))
    IN  /\ Len(spans) = n
        /\ \A k \in 1..n : spans[k].sentence = qualifying[k]

\* C29 as stated: with max_spans_per_question >= 1, the spans returned by
\* extract_spans are exactly, in text order, the first max_spans_per_question
\* sentences of the question that have at least min_span_words words, contain
\* no promotional term and contain at least one pain keyword.
C29_SpansAreFirstQualifyingSentences ==
    (Extracted /\ Extractor.max_spans_per_question >= 1)
        => SpansAreFirstQualifying

\* C29, amended: the same for a question whose sentiment is negative or
\* neutral or missing; for any other sentiment no span is returned.
C29_SpansOfNegativeOrNeutralQuestion ==
    (Extracted /\ Extractor.max_spans_per_question >= 1)
        => IF Get(question, "sentiment", "neutral")
                \in {"negative", "neutral"}
           THEN SpansAreFirstQualifying
           ELSE spans = <<>>

\* a question with more qualifying sentences than the cap of 1: one span,
\* of the first of them
C29_Witness ==
    /\ Extracted
    /\ Extractor.max_spans_per_question = 1
    /\ Len(QualifyingSentences(Extractor, question)) >= 2
    /\ Len(spans) = 1
    /\ spans[1].sentence = QualifyingSentences(Extractor, question)[1]

----------------------------------------------------------------------------
(* Inputs and calls of the two classifiers *)

WDeployment == <<"d", "e", "p", "l", "o", "y", "m", "e", "n", "t">>

WScale == <<"s", "c", "a", "l", "e">>

WBuild == <<"b", "u", "i", "l", "d">>

WEvaluate == <<"E", "v", "a", "l", "u", "a", "t", "e">>

WShipped == <<"s", "h", "i", "p", "p", "e", "d">>

ClassifyWords ==
    {WDeployment, WError, WScale, WBuild, WEvaluate, WShipped}

\* " ".join(words)
RECURSIVE JoinWords(_)
JoinWords(words) ==
    IF words = <<>> THEN <<>>
    ELSE IF Len(words) = 1 THEN words[1]
    ELSE words[1] \o <<" ">> \o JoinWords(Tail(words))

\* the texts handed to classify: up to MaxWords words
ClassifyTexts ==
    UNION { {JoinWords(ws) : ws \in [1..n -> ClassifyWords]} : n \in 0..MaxWords }

\* default thresholds, both thresholds lowered to 0.1, or both set to 0.3333
ClassifyConfigs ==
    { <<>>,
      [min_product_area_confidence  |-> Frac(1, 10),
       min_journey_stage_confidence |-> Frac(1, 10)],
      [min_product_area_confidence  |-> Frac(3333, 10000),
       min_journey_stage_confidence |-> Frac(3333, 10000)] }

NumStages == Len(STAGE_KEYWORDS)

\* iteration orders of the STAGE_KEYWORDS table: its rotations, forwards and
\* backwards, so that every two stages occur in both relative orders
StageOrders ==
    { [k \in 1..NumStages |-> ((r + k - 2) % NumStages) + 1] : r \in 1..NumStages }
    \cup
    { [k \in 1..NumStages |-> ((r - k + NumStages) % NumStages) + 1] : r \in 1..NumStages }

\* the order in which the table is written
DeclaredOrder == [k \in 1..NumStages |-> k]

InitClassify ==
    /\ pc = "classify"
    /\ classifyText \in ClassifyTexts
    /\ classifyConfig \in ClassifyConfigs
    /\ stageOrder \in StageOrders
    /\ areaScores = <<>> /\ areaResult = <<>>
    /\ stageScores = <<>> /\ stageBest = <<>> /\ stageResult = <<>>
    /\ FilterUnused
    /\ ExtractUnused
    /\ LaterUnused

\* areaResult = ProductAreaClassifier(config).classify(text)
CallClassifyProductArea ==
    /\ pc = "classify"
    /\ areaScores' = AreaScores(classifyText)
    /\ areaResult' = ClassifyProductArea(
                         ProductAreaClassifierInit(classifyConfig), classifyText)
    /\ pc' = "area_done"
    /\ UNCHANGED <<classifyText, classifyConfig, stageOrder, stageScores,
                   stageBest, stageResult, filterVars, extractVars,
                   laterVars>>

\* stageResult = JourneyStageClassifier(config).classify(text)
CallClassifyJourneyStage ==
    /\ pc = "area_done"
    /\ stageScores' = StageScores(classifyText, stageOrder)
    /\ stageBest' = BestStage(StageScores(classifyText, stageOrder))
    /\ stageResult' = ClassifyJourneyStage(
                          JourneyStageClassifierInit(classifyConfig),
                          classifyText, stageOrder)
    /\ pc' = "stage_done"
    /\ UNCHANGED <<classifyText, classifyConfig, stageOrder, areaScores,
                   areaResult, filterVars, extractVars, laterVars>>

NextClassify == CallClassifyProductArea \/ CallClassifyJourneyStage

SpecClassify == InitClassify /\ [][NextClassify]_vars

AreaDone == pc \in {"area_done", "stage_done"}

\* the number of keywords of a table entry found in the classified text
MatchesOf(entry) == MatchedCount(entry.keywords, Lower(classifyText))

\* the table entry with the given name
EntryOf(table, name) == table[CHOOSE i \in 1..Len(table) : table[i].name = name]

\* C8: in ProductAreaClassifier.classify every product area with fewer
\* than 2 matching keywords gets confidence 0.0, and the returned
\* confidence is 0.0 whenever no area has at least 2 matches.
C8_AreaNeedsTwoMatches ==
    AreaDone =>
        /\ \A a \in 1..Len(areaScores) :
              MatchesOf(EntryOf(PRODUCT_AREA_KEYWORDS, areaScores[a].name)) < 2
                  => FracEQ(areaScores[a].score, Zero)
        /\ (\A a \in 1..Len(PRODUCT_AREA_KEYWORDS) :
                MatchesOf(PRODUCT_AREA_KEYWORDS[a]) < 2)
              => FracEQ(areaResult.confidence, Zero)

\* a text that matches exactly one keyword of some area and two of none,
\* classified with confidence 0.0
C8_Witness ==
    /\ AreaDone
    /\ \E a \in 1..Len(PRODUCT_AREA_KEYWORDS) :
          MatchesOf(PRODUCT_AREA_KEYWORDS[a]) = 1
    /\ \A a \in 1..Len(PRODUCT_AREA_KEYWORDS) :
          MatchesOf(PRODUCT_AREA_KEYWORDS[a]) < 2
    /\ Len(areaScores) = Len(PRODUCT_AREA_KEYWORDS)
    /\ areaResult.category = None
    /\ FracEQ(areaResult.confidence, Zero)

TopStages ==
    {k \in 1..NumStages :
        \A j \in 1..NumStages :
            FracLE(Frac(MatchesOf(STAGE_KEYWORDS[j]), Len(STAGE_KEYWORDS[j].keywords)),
                   Frac(MatchesOf(STAGE_KEYWORDS[k]), Len(STAGE_KEYWORDS[k].keywords)))}

TopStageNames == {STAGE_KEYWORDS[k].name : k \in TopStages}

\* the first stage of shipping > scaling > building > first_use >
\* evaluation > troubleshooting among the top stages
FirstTopStage ==
    STAGE_PRIORITY[SetMin({p \in 1..Len(STAGE_PRIORITY) :
                              STAGE_PRIORITY[p] \in TopStageNames})]

SomeStageMatches == \E k \in 1..NumStages : MatchesOf(STAGE_KEYWORDS[k]) > 0

\* C10: among the stages with the highest confidence classify selects the
\* first in the order shipping > scaling > building > first_use > evaluation
\* > troubleshooting, and its result is the one it gives when the keyword
\* table is iterated in the declared order, whatever order it is iterated in.
C10_TieBrokenByPriority ==
    pc = "stage_done" =>
        /\ SomeStageMatches => stageBest.name = FirstTopStage
        /\ stageResult.category \in {None, stageBest.name}
        /\ stageResult = ClassifyJourneyStage(
                             JourneyStageClassifierInit(classifyConfig),
                             classifyText, DeclaredOrder)

\* two stages tie at the top, the table is iterated with the winner after
\* another top stage, and the winner is returned
C10_Witness ==
    /\ pc = "stage_done"
    /\ SomeStageMatches
    /\ Cardinality(TopStages) >= 2
    /\ stageResult.category = FirstTopStage
    /\ stageScores[1].name \in TopStageNames \ {FirstTopStage}

\* the highest score of a scores dict
MaxScore(scores) ==
    CHOOSE s \in {scores[i].score : i \in 1..Len(scores)} :
        \A i \in 1..Len(scores) : FracLE(scores[i].score, s)

AreaThreshold == ProductAreaClassifierInit(classifyConfig).min_confidence

StageThreshold == JourneyStageClassifierInit(classifyConfig).min_confidence

\* what both halves of C11 say of one classifier, with the threshold compared
\* against the confidence named by atLeast
ThresholdRespected(scores, result, threshold, atLeast) ==
    /\ FracLT(MaxScore(scores), threshold) => result.category = None
    /\ result.category # None =>
          /\ FracEQ(Lookup(scores, result.category), MaxScore(scores))
          /\ FracLE(threshold, atLeast)

\* C11 (as stated): each classifier returns category None whenever the highest
\* category confidence is below the configured threshold, and whenever it
\* returns a category, that category attains the highest confidence and the
\* returned confidence is at least the threshold.
C11_ReturnedConfidenceAtLeastThreshold ==
    /\ AreaDone =>
          ThresholdRespected(areaScores, areaResult, AreaThreshold,
                             areaResult.confidence)
    /\ pc = "stage_done" =>
          ThresholdRespected(stageScores, stageResult, StageThreshold,
                             stageResult.confidence)

\* C11 (amended): each classifier returns category None whenever the highest
\* category confidence is below the configured threshold, and whenever it
\* returns a category, that category attains the highest confidence, the
\* highest confidence is at least the threshold, and the returned confidence
\* is the highest confidence rounded to 3 decimals.
C11_BestConfidenceAtLeastThreshold ==
    /\ AreaDone =>
          /\ ThresholdRespected(areaScores, areaResult, AreaThreshold,
                                MaxScore(areaScores))
          /\ areaResult.category # None =>
                areaResult.confidence
                  = Round3(MaxScore(areaScores)[1], MaxScore(areaScores)[2])
    /\ pc = "stage_done" =>
          /\ ThresholdRespected(stageScores, stageResult, StageThreshold,
                                MaxScore(stageScores))
          /\ stageResult.category # None =>
                stageResult.confidence
                  = Round3(MaxScore(stageScores)[1], MaxScore(stageScores)[2])

\* a text whose product area passes its threshold while its best journey
\* stage, with a nonzero confidence, stays below the threshold
C11_Witness ==
    /\ pc = "stage_done"
    /\ areaResult.category # None
    /\ stageResult.category = None
    /\ FracGT(MaxScore(stageScores), Zero)
    /\ FracLT(MaxScore(stageScores), StageThreshold)

----------------------------------------------------------------------------
(* SolutionExtractorV2  (solution_extractor.py) *)

SOLUTION_KEYWORDS ==
    << [name |-> "workaround", keywords |->
         << <<"w", "o", "r", "k", "a", "r", "o", "u", "n", "d">>,
            <<"w", "o", "r", "k", " ", "a", "r", "o", "u", "n", "d">>,
            <<"t", "e", "m", "p", "o", "r", "a", "r", "y">>,
            <<"i", "n", "t", "e", "r", "i", "m">>,
            <<"f", "o", "r", " ", "n", "o", "w">> >>],
       [name |-> "implementation", keywords |->
         << <<"i", "m", "p", "l", "e", "m", "e", "n", "t">>,
            <<"i", "m", "p", "l", "e", "m", "e", "n", "t", "a", "t", "i", "o", "n">>,
            <<"s", "o", "l", "u", "t", "i", "o", "n">>,
            <<"a", "p", "p", "r", "o", "a", "c", "h">>,
            <<"m", "e", "t", "h", "o", "d">> >>],
       [name |-> "configuration", keywords |->
         << <<"c", "o", "n", "f", "i", "g", "u", "r", "e">>,
            <<"c", "o", "n", "f", "i", "g", "u", "r", "a", "t", "i", "o", "n">>,
            <<"s", "e", "t", "t", "i", "n", "g">>,
            <<"p", "a", "r", "a", "m", "e", "t", "e", "r">>,
            <<"o", "p", "t", "i", "o", "n">> >>],
       [name |-> "external_tool", keywords |->
         << <<"t", "o", "o", "l">>,
            <<"l", "i", "b", "r", "a", "r", "y">>,
            <<"p", "l", "u", "g", "i", "n">>,
            <<"p", "a", "c", "k", "a", "g", "e">>,
            <<"e", "x", "t", "e", "n", "s", "i", "o", "n">>,
            <<"s", "e", "r", "v", "i", "c", "e">> >>],
       [name |-> "best_practice", keywords |->
         << <<"b", "e", "s", "t", " ", "p", "r", "a", "c", "t", "i", "c", "e">>,
            <<"r", "e", "c", "o", "m", "m", "e", "n", "d", "a", "t", "i", "o", "n">>,
            <<"p", "r", "a", "c", "t", "i", "c", "e">>,
            <<"s", "h", "o", "u", "l", "d">>,
            <<"r", "e", "c", "o", "m", "m", "e", "n", "d">> >>] >>

\* any(kw in text_lower for kw in keywords)
AnyContained(keywords, text_lower) ==
    \E k \in 1..Len(keywords) : Contains(text_lower, keywords[k])

\* SolutionExtractorV2._identify_solution_type: the first type, in the order
\* of the table, one of whose keywords occurs in the lowered text
IdentifySolutionType(txt) ==
    LET text_lower == Lower(txt)
        hits == {i \in 1..Len(SOLUTION_KEYWORDS) :
                    AnyContained(SOLUTION_KEYWORDS[i].keywords, text_lower)}
    IN  IF hits = {} THEN None ELSE SOLUTION_KEYWORDS[SetMin(hits)].name

\* the indicators list of _looks_like_solution
SolutionIndicators ==
    << <<"t", "r", "y">>,
       <<"u", "s", "e">>,
       <<"d", "o">>,
       <<"c", "h", "a", "n", "g", "e">>,
       <<"s", "e", "t">>,
       <<"i", "n", "s", "t", "a", "l", "l">>,
       <<"a", "d", "d">>,
       <<"r", "e", "m", "o", "v", "e">>,
       <<"u", "p", "d", "a", "t", "e">>,
       <<"c", "h", "e", "c", "k">>,
       <<"v", "e", "r", "i", "f", "y">>,
       <<"e", "n", "s", "u", "r", "e">>,
       <<"c", "o", "n", "f", "i", "g", "u", "r", "e">>,
       <<"i", "m", "p", "l", "e", "m", "e", "n", "t">>,
       <<"c", "a", "l", "l">>,
       <<"r", "u", "n">>,
       <<"e", "x", "e", "c", "u", "t", "e">> >>

\* SolutionExtractorV2._looks_like_solution
LooksLikeSolution(txt) == AnyContained(SolutionIndicators, Lower(txt))

\* a record that also carries an effectiveness estimate
SolutionRecordRated(txt, source, post_id, post_url, upvotes, solution_type) ==
    [text |-> txt, source |-> source, post_id |-> post_id,
     post_url |-> post_url, upvotes |-> upvotes,
     solution_type |-> solution_type, effectiveness |-> upvotes]

\* the dict _extract_from_text appends
SolutionRecord(txt, source, post_id, post_url, upvotes, solution_type) ==
    [text |-> txt, source |-> source, post_id |-> post_id,
     post_url |-> post_url, upvotes |-> upvotes,
     solution_type |-> solution_type]

\* SolutionExtractorV2._extract_from_text
ExtractFromText(txt, source, post_id, post_url, upvotes) ==
    IF txt = <<>> \/ Len(Strip(txt)) < 20 THEN <<>>
    ELSE LET solution_type == IdentifySolutionType(txt)
         IN  IF solution_type # None \/ LooksLikeSolution(txt)
             THEN << SolutionRecord(txt, source, post_id, post_url, upvotes,
                        IF solution_type # None THEN solution_type
                        ELSE "general_solution") >>
             ELSE <<>>

\* the loop of extract_solutions over the comments from the c-th on
RECURSIVE CommentSolutions(_, _, _)
CommentSolutions(q, comments, c) ==
    IF c > Len(comments) THEN <<>>
    ELSE ExtractFromText(Get(comments[c], "text", <<>>), "comment",
             Get(comments[c], "post_id", Get(q, "post_id", None)),
             Get(comments[c], "post_url", Get(q, "post_url", None)),
             Get(comments[c], "upvotes", 0))
         \o CommentSolutions(q, comments, c + 1)

\* an extract_solutions that scans the comments before the question
ExtractSolutionsCommentsFirst(conv) ==
    LET q == Get(conv, "question", <<>>)
        fromQuestion ==
            IF "text" \in DOMAIN q /\ q["text"] # <<>>
            THEN ExtractFromText(q["text"], "question",
                     Get(q, "post_id", None), Get(q, "post_url", None),
                     Get(q, "upvotes", 0))
            ELSE <<>>
    IN  CommentSolutions(q, Get(conv, "comments", <<>>), 1) \o fromQuestion

\* SolutionExtractorV2.extract_solutions
ExtractSolutions(conv) ==
    LET q == Get(conv, "question", <<>>)
        fromQuestion ==
            IF "text" \in DOMAIN q /\ q["text"] # <<>>
            THEN ExtractFromText(q["text"], "question",
                     Get(q, "post_id", None), Get(q, "post_url", None),
                     Get(q, "upvotes", 0))
            ELSE <<>>
    IN  fromQuestion \o CommentSolutions(q, Get(conv, "comments", <<>>), 1)

----------------------------------------------------------------------------
(* Inputs and calls of SolutionExtractorV2 *)

MaxComments == 2

\* typed as configuration (listed before best_practice, which also matches)
SolConfigure ==
    <<"Y", "o", "u", " ", "s", "h", "o", "u", "l", "d", " ", "c", "o", "n",
      "f", "i", "g", "u", "r", "e", " ", "t", "h", "e", " ", "t", "i", "m",
      "e", "o", "u", "t", " ", "s", "e", "t", "t", "i", "n", "g">>

\* no keyword of the table, one indicator (run)
SolRun ==
    <<"I", " ", "h", "a", "d", " ", "t", "o", " ", "r", "u", "n", " ", "i",
      "t", " ", "a", "g", "a", "i", "n", " ", "a", "n", "d", " ", "a", "g",
      "a", "i", "n">>

\* neither a keyword nor an indicator
SolNeither ==
    <<"S", "a", "m", "e", " ", "h", "e", "r", "e", ",", " ", "i", "t", " ",
      "k", "e", "e", "p", "s", " ", "f", "a", "i", "l", "i", "n", "g", " ",
      "f", "o", "r", " ", "m", "e">>

\* an indicator, but fewer than 20 characters
SolShort ==
    <<"t", "r", "y", " ", "t", "h", "i", "s">>

\* 20 characters, fewer once stripped
SolPadded ==
    <<" ", " ", "t", "r", "y", " ", "t", "h", "i", "s", " ", "o", "n", "e",
      " ", " ", " ", " ", " ", " ", " ", " ", " ", " ", " ", " ">>

QuestionTextsOfConversation == {SolConfigure, SolNeither, SolShort, <<>>}

CommentTexts == {SolRun, SolConfigure, SolNeither, SolPadded}

\* question records: with or without a text, with or without identifiers
ConversationQuestions ==
    {[text |-> txt] : txt \in QuestionTextsOfConversation}
    \cup {[sentiment |-> "negative"]}
    \cup {[text |-> txt, post_id |-> "q1", post_url |-> "url/q1",
           upvotes |-> 7, category |-> "Question"] :
            txt \in QuestionTextsOfConversation}

\* comment records: bare, or with identifiers, upvotes and a category
ConversationComments ==
    {[text |-> txt] : txt \in CommentTexts}
    \cup {[category |-> "Comment"]}
    \cup {[text |-> txt, post_id |-> "c1", post_url |-> "url/c1",
           upvotes |-> 3, category |-> cat] :
            txt \in CommentTexts, cat \in {"Answer", "Comment"}}

CommentLists ==
    UNION {[1..n -> ConversationComments] : n \in 0..MaxComments}

Conversations ==
    {[question |-> q, comments |-> cs] :
        q \in ConversationQuestions, cs \in CommentLists}
    \cup {[comments |-> cs] : cs \in CommentLists}
    \cup {[question |-> q] : q \in ConversationQuestions}

InitSolution ==
    /\ pc = "solutions"
    /\ conversation \in Conversations
    /\ solutions = <<>>
    /\ FirstUnused
    /\ ClusterUnused /\ InsightUnused /\ LegacyUnused /\ GroupUnused
    /\ StoreUnused /\ SynthUnused

\* solutions = SolutionExtractorV2().extract_solutions(conversation)
CallExtractSolutions ==
    /\ pc = "solutions"
    /\ solutions' = ExtractSolutions(conversation)
    /\ pc' = "solutions_done"
    /\ UNCHANGED <<conversation, firstVars, clusterVars, insightVars,
                   legacyVars, groupVars, storeVars,
                   synthVars>>

NextSolution == CallExtractSolutions

SpecSolution == InitSolution /\ [][NextSolution]_vars

SolutionKeys ==
    {"text", "source", "post_id", "post_url", "upvotes", "solution_type"}

\* C12: no solution record returned by extract_solutions has the key
\* effectiveness or success_rate; each has exactly the keys text, source,
\* post_id, post_url, upvotes and solution_type.
C12_SolutionKeysExact ==
    pc = "solutions_done" =>
        \A i \in 1..Len(solutions) :
            /\ DOMAIN solutions[i] = SolutionKeys
            /\ "effectiveness" \notin DOMAIN solutions[i]
            /\ "success_rate" \notin DOMAIN solutions[i]

\* a conversation that yields a solution of its question and one of a comment
C12_Witness ==
    /\ pc = "solutions_done"
    /\ \E i, j \in 1..Len(solutions) :
          /\ solutions[i].source = "question"
          /\ solutions[j].source = "comment"
          /\ solutions[j].solution_type = "general_solution"


\* the text of turn t of the conversation: turn 0 is the question, turn k
\* the k-th comment
TurnText(conv, t) ==
    IF t = 0 THEN Get(Get(conv, "question", <<>>), "text", <<>>)
    ELSE Get(conv.comments[t], "text", <<>>)

\* the text of a turn reads as a solution: 20 characters or more once
\* stripped, and a solution keyword or indicator in it
ReadsAsSolution(txt) ==
    /\ Len(Strip(txt)) >= 20
    /\ \/ \E i \in 1..Len(SOLUTION_KEYWORDS) :
             AnyContained(SOLUTION_KEYWORDS[i].keywords, Lower(txt))
       \/ AnyContained(SolutionIndicators, Lower(txt))

\* the turns of the conversation that read as a solution
SolutionTurns(conv) ==
    {t \in 0..Len(Get(conv, "comments", <<>>)) :
        ReadsAsSolution(TurnText(conv, t))}

\* the i-th of a set of turns, in the order of the conversation
NthTurn(turns, i) ==
    CHOOSE t \in turns : Cardinality({u \in turns : u < t}) = i - 1

\* C28: extract_solutions examines the question text and every comment
\* whatever the comment's category, yields at most one solution per turn,
\* tags it source = "question" or "comment", emits the question's solution
\* before the comments' solutions in comment order, and gives a comment's
\* solution the question's post_id and post_url when the comment has none.
C28_OneSolutionPerTurnInOrder ==
    pc = "solutions_done" =>
        LET q     == Get(conversation, "question", <<>>)
            cs    == Get(conversation, "comments", <<>>)
            turns == SolutionTurns(conversation)
        IN  /\ Len(solutions) <= 1 + Len(cs)
            /\ Len(solutions) = Cardinality(turns)
            /\ \A i \in 1..Len(solutions) :
                  LET t == NthTurn(turns, i)
                  IN  /\ solutions[i].text = TurnText(conversation, t)
                      /\ solutions[i].source =
                           (IF t = 0 THEN "question" ELSE "comment")
                      /\ t = 0 =>
                           /\ solutions[i].post_id = Get(q, "post_id", None)
                           /\ solutions[i].post_url = Get(q, "post_url", None)
                      /\ t > 0 =>
                           /\ solutions[i].post_id =
                                Get(cs[t], "post_id", Get(q, "post_id", None))
                           /\ solutions[i].post_url =
                                Get(cs[t], "post_url",
                                    Get(q, "post_url", None))

\* three solutions: of the question, of a first comment whose category is
\* not Answer and which keeps its identifiers, and of a second comment that
\* has none and takes those of the question
C28_Witness ==
    /\ pc = "solutions_done"
    /\ Len(solutions) = 3
    /\ solutions[1].source = "question"
    /\ Len(conversation.comments) = 2
    /\ "category" \in DOMAIN conversation.comments[1]
    /\ conversation.comments[1].category = "Comment"
    /\ solutions[2].post_id = "c1"
    /\ "post_id" \notin DOMAIN conversation.comments[2]
    /\ solutions[3].source = "comment"
    /\ solutions[3].post_id = "q1"
    /\ solutions[3].post_url = "url/q1"

----------------------------------------------------------------------------
(* HDBSCANClustering  (clustering.py) *)

\* None where the code otherwise holds a float
NoFloat == <<>>

\* sorted(S), for a set of integers
RECURSIVE Sorted(_)
Sorted(S) ==
    IF S = {} THEN <<>> ELSE <<SetMin(S)>> \o Sorted(S \ {SetMin(S)})

\* [i for i, label in enumerate(labels) if label == l], counted from 1
IndicesWith(ls, l) == Sorted({i \in 1..Len(ls) : ls[i] = l})

\* HDBSCANClustering.__init__
HDBSCANClusteringInit(config) ==
    [min_cluster_size |-> Get(config, "min_cluster_size", 3),
     min_samples      |-> Get(config, "min_samples", 2),
     cluster_selection_method |->
         Get(config, "cluster_selection_method", "eom"),
     max_clusters     |-> Get(config, "max_clusters", 50),
     noise_handling   |->
         Get(config, "noise_handling", "include_as_singletons")]

\* the items of clusters[l]: index counts from 0 as enumerate does
ClusterItems(ls, md, l) ==
    LET idx == IndicesWith(ls, l)
    IN  [k \in 1..Len(idx) |-> [index |-> idx[k] - 1, metadata |-> md[idx[k]]]]
        \o <<>>

\* cluster building that does not skip the label -1
BuildClustersOfEveryLabel(ls, md) ==
    LET ids == Sorted({ls[i] : i \in 1..Len(ls)})
    IN  [k \in 1..Len(ids) |->
            [id    |-> ids[k],
             items |-> ClusterItems(ls, md, ids[k]),
             size  |-> Len(ClusterItems(ls, md, ids[k]))]] \o <<>>

\* HDBSCANClustering._build_clusters
BuildClusters(ls, md) ==
    LET ids == Sorted({ls[i] : i \in 1..Len(ls)} \ {-1})
    IN  [k \in 1..Len(ids) |->
            [id    |-> ids[k],
             items |-> ClusterItems(ls, md, ids[k]),
             size  |-> Len(ClusterItems(ls, md, ids[k]))]] \o <<>>

\* the list of singleton entries of the noise indices
Singletons(ls, md) ==
    LET noise_indices == IndicesWith(ls, -1)
    IN  [k \in 1..Len(noise_indices) |->
            [singleton |-> TRUE,
             index     |-> noise_indices[k] - 1,
             metadata  |-> md[noise_indices[k]]]] \o <<>>

\* noise handling that keeps the noise points whatever the configuration
HandleNoiseKeepsAll(self, ls, md) == Singletons(ls, md)

\* HDBSCANClustering._handle_noise
HandleNoise(self, ls, md) ==
    IF IndicesWith(ls, -1) = <<>> THEN <<>>
    ELSE IF self.noise_handling = "include_as_singletons"
         THEN Singletons(ls, md)
    ELSE IF self.noise_handling = "discard" THEN <<>>
    ELSE <<>>

\* HDBSCANClustering.cluster, given the labels fit_predict returns; the
\* normalized vectors are kept as their number of rows
Cluster(self, ls, md) ==
    IF Len(md) = 0
    THEN [clusters |-> <<>>, noise_items |-> <<>>, labels |-> <<>>]
    ELSE [clusters    |-> BuildClusters(ls, md),
          noise_items |-> HandleNoise(self, ls, md),
          labels      |-> ls,
          vectors     |-> Len(md)]

----------------------------------------------------------------------------
(* ClusterQualityMetrics  (cluster_metrics.py) *)

\* labels[valid_mask]: the positions whose label is not noise
ValidPositions(ls) == {i \in 1..Len(ls) : ls[i] >= 0}

\* set(labels[valid_mask])
ValidLabels(ls) == {ls[i] : i \in ValidPositions(ls)}

\* the test that guards the call of silhouette_score
SilhouetteAttempted(ls) ==
    Cardinality(ValidPositions(ls)) >= 4 /\ Cardinality(ValidLabels(ls)) >= 2

\* sklearn's silhouette_score accepts 2 <= n_labels <= n_samples - 1
SilhouetteDefined(ls) ==
    /\ Cardinality(ValidLabels(ls)) >= 2
    /\ Cardinality(ValidLabels(ls)) <= Cardinality(ValidPositions(ls)) - 1

\* _compute_intra_cluster_similarity returns a float when some cluster has a
\* pair of members
IntraDefined(ls) ==
    /\ Cardinality(ValidPositions(ls)) >= 2
    /\ \E l \in ValidLabels(ls) : Len(IndicesWith(ls, l)) >= 2

\* _compute_inter_cluster_separation returns a float when there are two
\* clusters
InterDefined(ls) == Cardinality(ValidLabels(ls)) >= 2

\* ClusterQualityMetrics.compute; sil is what silhouette_score returns
\* (NoFloat when it raises), intra and inter are the means over the vectors
Compute(ls, sil, intra, inter) ==
    [silhouette_score |->
        IF SilhouetteAttempted(ls) /\ sil # NoFloat
        THEN Round3(sil[1], sil[2]) ELSE NoFloat,
     avg_intra_cluster_cosine_similarity |->
        IF IntraDefined(ls) THEN Round3(intra[1], intra[2]) ELSE NoFloat,
     avg_inter_cluster_separation |->
        IF InterDefined(ls) THEN Round3(inter[1], inter[2]) ELSE NoFloat,
     noise_percentage |->
        IF Len(ls) > 0 THEN Round3(Len(IndicesWith(ls, -1)), Len(ls))
        ELSE Zero,
     num_clusters     |-> Cardinality(ValidLabels(ls)),
     num_noise_points |-> Len(IndicesWith(ls, -1))]

----------------------------------------------------------------------------
(* Inputs and calls of HDBSCANClustering and ClusterQualityMetrics *)

MaxItems == 4

\* one metadata item per vector
MetadataOf(n) == [i \in 1..n |-> [span_id |-> i]] \o <<>>

\* label arrays of n items: -1 for noise, cluster ids from 0
LabelArrays(n) == [1..n -> -1..(n - 1)]

\* the default noise handling, its two documented values, and another value
ClusterConfigs ==
    { <<>>,
      [noise_handling |-> "include_as_singletons"],
      [noise_handling |-> "discard"],
      [noise_handling |-> "merge"] }

\* what the call of silhouette_score yields: an exception, or a coefficient
SilhouetteRaised == {NoFloat}

SilhouetteCoefficients == {Frac(-1, 4), Frac(2, 3)}

\* means of cosine similarities and separations over the vectors
Similarities == {Frac(1, 2), One}

InitCluster ==
    /\ pc \in {"cluster", "compute"}
    /\ IF pc = "cluster"
       THEN /\ metadata \in {MetadataOf(n) : n \in 0..MaxItems}
            /\ clusterConfig \in ClusterConfigs
            /\ labels = <<>>
       ELSE /\ metadata = <<>>
            /\ clusterConfig = <<>>
            /\ labels \in UNION {LabelArrays(n) : n \in 0..MaxItems}
    /\ clusterResult = <<>>
    /\ metrics = <<>>
    /\ FirstUnused
    /\ SolutionUnused /\ InsightUnused /\ LegacyUnused /\ GroupUnused
    /\ StoreUnused /\ SynthUnused

\* clusterResult = HDBSCANClustering(config).cluster(vectors, metadata);
\* ls is what HDBSCAN.fit_predict returns for the vectors
CallCluster ==
    /\ pc = "cluster"
    /\ \E ls \in LabelArrays(Len(metadata)) :
          clusterResult' = Cluster(HDBSCANClusteringInit(clusterConfig),
                                   ls, metadata)
    /\ pc' = "clustered"
    /\ UNCHANGED <<metadata, clusterConfig, labels, metrics, firstVars,
                   solutionVars, insightVars, legacyVars, groupVars,
                   storeVars, synthVars>>

\* metrics = ClusterQualityMetrics().compute(vectors, labels)
CallCompute ==
    /\ pc = "compute"
    /\ \E sil \in SilhouetteRaised \cup
                  (IF SilhouetteDefined(labels) THEN SilhouetteCoefficients
                   ELSE {}),
          intra \in Similarities, inter \in Similarities :
          metrics' = Compute(labels, sil, intra, inter)
    /\ pc' = "measured"
    /\ UNCHANGED <<metadata, clusterConfig, clusterResult, labels, firstVars,
                   solutionVars, insightVars, legacyVars, groupVars,
                   storeVars, synthVars>>

NextCluster == CallCluster \/ CallCompute

SpecCluster == InitCluster /\ [][NextCluster]_vars

NoiseHandling == HDBSCANClusteringInit(clusterConfig).noise_handling

\* the number of entries of noise_items that carry the index idx
NoiseEntriesOf(idx) ==
    Cardinality({k \in 1..Len(clusterResult.noise_items) :
                    clusterResult.noise_items[k].index = idx})

\* C13: with noise_handling = 'discard' the returned noise_items list is
\* empty; with noise_handling = 'include_as_singletons' every index labelled
\* -1 appears in exactly one singleton entry of noise_items and no other index
\* appears there.
C13_NoiseItemsFollowConfiguration ==
    pc = "clustered" =>
        /\ NoiseHandling = "discard" => clusterResult.noise_items = <<>>
        /\ NoiseHandling = "include_as_singletons" =>
              /\ \A k \in 1..Len(clusterResult.noise_items) :
                    /\ clusterResult.noise_items[k].singleton = TRUE
                    /\ clusterResult.noise_items[k].index
                         \in 0..(Len(clusterResult.labels) - 1)
              /\ \A i \in 1..Len(clusterResult.labels) :
                    NoiseEntriesOf(i - 1)
                      = IF clusterResult.labels[i] = -1 THEN 1 ELSE 0

\* singletons were asked for, and two items are noise next to a real cluster
C13_Witness ==
    /\ pc = "clustered"
    /\ "noise_handling" \in DOMAIN clusterConfig
    /\ NoiseHandling = "include_as_singletons"
    /\ Len(clusterResult.noise_items) = 2
    /\ Len(clusterResult.clusters) = 1

\* the (cluster, position) pairs at which the index idx is a member
MembershipsOf(idx) ==
    {<<k, j>> \in (1..Len(clusterResult.clusters))
                    \X (1..Len(clusterResult.labels)) :
        /\ j <= Len(clusterResult.clusters[k].items)
        /\ clusterResult.clusters[k].items[j].index = idx}

\* C14: no cluster has id -1 and no item labelled -1 is a member of any
\* cluster; every item with a label >= 0 is a member of exactly one cluster,
\* the one whose id equals its label; each cluster's size equals its number of
\* members.
C14_ClustersPartitionLabelledItems ==
    pc = "clustered" =>
        /\ \A k \in 1..Len(clusterResult.clusters) :
              /\ clusterResult.clusters[k].id # -1
              /\ clusterResult.clusters[k].size
                   = Len(clusterResult.clusters[k].items)
        /\ \A i \in 1..Len(clusterResult.labels) :
              IF clusterResult.labels[i] = -1
              THEN MembershipsOf(i - 1) = {}
              ELSE /\ Cardinality(MembershipsOf(i - 1)) = 1
                   /\ \A m \in MembershipsOf(i - 1) :
                         clusterResult.clusters[m[1]].id
                           = clusterResult.labels[i]

\* two clusters, one of them with two members, and a noise item
C14_Witness ==
    /\ pc = "clustered"
    /\ Len(clusterResult.clusters) = 2
    /\ \E k \in 1..2 : clusterResult.clusters[k].size = 2
    /\ \E i \in 1..Len(clusterResult.labels) : clusterResult.labels[i] = -1

\* the non-noise clusters that have at least 2 members
PairedClusters(ls) == {l \in ValidLabels(ls) : Len(IndicesWith(ls, l)) >= 2}

\* C15: compute returns silhouette_score = None for every label array in
\* which fewer than 2 non-noise clusters have at least 2 members each.
C15_SilhouetteNeedsTwoPairedClusters ==
    pc = "measured" =>
        (Cardinality(PairedClusters(labels)) < 2
            => metrics.silhouette_score = NoFloat)

----------------------------------------------------------------------------
(* InsightCardGenerator  (insight_generator.py) *)

\* a confidence, which is a multiple of 0.001, in thousandths
Thousandths(f) == (1000 * f[1]) \div f[2]

\* sum(s.get('confidence', 0.5) for s in spans), in thousandths
RECURSIVE ConfidenceSum(_)
ConfidenceSum(spanList) ==
    IF spanList = <<>> THEN 0
    ELSE Thousandths(Get(Head(spanList), "confidence", Frac(1, 2)))
         + ConfidenceSum(Tail(spanList))

\* a severity policy whose middle level needs both conditions
CalculateSeverityBothForMedium(spanList) ==
    IF spanList = <<>> THEN "low"
    ELSE LET avg_confidence ==
                 Frac(ConfidenceSum(spanList), 1000 * Len(spanList))
         IN  IF Len(spanList) >= 5 /\ FracGT(avg_confidence, Frac(6, 10))
             THEN "high"
             ELSE IF Len(spanList) >= 3 /\ FracGT(avg_confidence, Frac(5, 10))
             THEN "medium"
             ELSE "low"

\* InsightCardGenerator._calculate_severity
CalculateSeverity(spanList) ==
    IF spanList = <<>> THEN "low"
    ELSE LET avg_confidence ==
                 Frac(ConfidenceSum(spanList), 1000 * Len(spanList))
         IN  IF Len(spanList) >= 5 /\ FracGT(avg_confidence, Frac(6, 10))
             THEN "high"
             ELSE IF Len(spanList) >= 3 \/ FracGT(avg_confidence, Frac(5, 10))
             THEN "medium"
             ELSE "low"

\* InsightCardGenerator.generate_insight_card
GenerateInsightCard(label, spanList, product_area, journey_stage) ==
    [label          |-> label,
     evidence       |-> spanList,
     evidence_count |-> Len(spanList),
     product_area   |-> product_area,
     journey_stage  |-> journey_stage,
     severity       |-> CalculateSeverity(spanList)]

----------------------------------------------------------------------------
(* LegacyAdapter  (legacy_adapter.py) *)

\* LegacyAdapter._map_severity_to_intensity
MapSeverityToIntensity(severity) ==
    IF severity = "low" THEN 1
    ELSE IF severity = "medium" THEN 2
    ELSE IF severity = "high" THEN 3
    ELSE 1

\* examples that are not truncated
ExtractExamplesWhole(evidenceList) ==
    LET firstThree == SubSeq(evidenceList, 1, Min2(3, Len(evidenceList)))
    IN  [k \in 1..Len(firstThree) |-> Get(firstThree[k], "text", <<>>)] \o <<>>

\* LegacyAdapter._extract_examples
ExtractExamples(evidenceList) ==
    LET firstThree == SubSeq(evidenceList, 1, Min2(3, Len(evidenceList)))
    IN  [k \in 1..Len(firstThree) |->
            SliceTo(Get(firstThree[k], "text", <<>>), 100)] \o <<>>

\* the pain point built from one card
PainPoint(c) ==
    [pain_point           |-> Get(c, "label", <<>>),
     frequency            |-> Get(c, "evidence_count", 0),
     intensity            |-> MapSeverityToIntensity(Get(c, "severity", "low")),
     category             |-> Get(c, "product_area", "uncategorized"),
     sentiment_impact     |-> "negative",
     examples             |-> ExtractExamples(Get(c, "evidence", <<>>)),
     associated_solutions |-> <<>>]

\* LegacyAdapter.convert_to_legacy_pain_points
ConvertToLegacyPainPoints(insight_cards) ==
    LET pain_points ==
            [i \in 1..Len(insight_cards) |-> PainPoint(insight_cards[i])]
            \o <<>>
    IN  [pain_points |-> pain_points,
         total_count |-> Len(pain_points),
         format      |-> "legacy"]

----------------------------------------------------------------------------
(* Inputs and calls of InsightCardGenerator *)

MaxEvidence == 6

\* 104 characters
LongText == LongSentence \o LongSentence

\* evidence spans with confidence 0.3 and 0.7, and one without a confidence
EvidenceSpans ==
    { [text |-> ThreeWords, confidence |-> Frac(300, 1000)],
      [text |-> LongText, confidence |-> Frac(700, 1000)],
      [text |-> ThreeWords] }

EvidenceLists == UNION {[1..n -> EvidenceSpans] : n \in 0..MaxEvidence}

\* caps a configuration could name, below the longest evidence list
EvidenceCaps == 1..(MaxEvidence \div 2)

CardLabel == <<"C", "r", "a", "s", "h", "e", "s">>

ProductAreas == {None, "performance"}

InitInsight ==
    /\ pc = "insight"
    /\ evidenceCap \in EvidenceCaps
    /\ evidence \in EvidenceLists
    /\ card = <<>>
    /\ FirstUnused
    /\ SolutionUnused /\ ClusterUnused /\ LegacyUnused /\ GroupUnused
    /\ StoreUnused /\ SynthUnused

\* card = InsightCardGenerator().generate_insight_card(label, spans, area);
\* the generator takes no configuration, so nothing reads evidenceCap
CallGenerateInsightCard ==
    /\ pc = "insight"
    /\ \E product_area \in ProductAreas :
          card' = GenerateInsightCard(CardLabel, evidence, product_area, None)
    /\ pc' = "card_done"
    /\ UNCHANGED <<evidenceCap, evidence, firstVars, solutionVars,
                   clusterVars, legacyVars, groupVars, storeVars,
                   synthVars>>

NextInsight == CallGenerateInsightCard

SpecInsight == InitInsight /\ [][NextInsight]_vars

\* the mean confidence of the spans handed over exceeds num/den
MeanAbove(num, den) ==
    /\ evidence # <<>>
    /\ den * ConfidenceSum(evidence) > num * 1000 * Len(evidence)

AllConfidencesAre(f) ==
    \A k \in 1..Len(evidence) :
        "confidence" \in DOMAIN evidence[k] /\ FracEQ(evidence[k].confidence, f)

C17_EvidenceWithinCap ==
    pc = "card_done" => Len(card.evidence) <= evidenceCap

----------------------------------------------------------------------------
(* Inputs and calls of LegacyAdapter *)

MaxCards == 2

SpanShortLow == [text |-> ThreeWords, confidence |-> Frac(300, 1000)]

SpanLongHigh == [text |-> LongText, confidence |-> Frac(700, 1000)]

SpanWithoutText == [confidence |-> Frac(700, 1000)]

\* evidence lists of 0, 1, 1, 4 and 5 spans
LegacyEvidenceLists ==
    { <<>>,
      <<SpanShortLow>>,
      <<SpanLongHigh>>,
      <<SpanWithoutText, SpanShortLow, SpanLongHigh, SpanLongHigh>>,
      <<SpanLongHigh, SpanLongHigh, SpanLongHigh, SpanLongHigh, SpanLongHigh>> }

\* cards as generate_insight_card builds them, and a card without any field
LegacyCards ==
    {GenerateInsightCard(CardLabel, e, "performance", None) :
        e \in LegacyEvidenceLists}
    \cup {GenerateInsightCard(ThreeWords, <<SpanShortLow>>, None, "adoption")}
    \cup {[journey_stage |-> None]}

InitLegacy ==
    /\ pc = "legacy"
    /\ cards \in UNION {[1..n -> LegacyCards] : n \in 0..MaxCards}
    /\ legacy = <<>>
    /\ FirstUnused
    /\ SolutionUnused /\ ClusterUnused /\ InsightUnused /\ GroupUnused
    /\ StoreUnused /\ SynthUnused

\* a conversion that cuts the evidence list of every card to the three spans
\* it takes its examples from
CallConvertToLegacyCuttingEvidence ==
    /\ pc = "legacy"
    /\ legacy' = ConvertToLegacyPainPoints(cards)
    /\ cards' = [i \in 1..Len(cards) |->
                    IF "evidence" \in DOMAIN cards[i]
                    THEN DictSet(cards[i], "evidence",
                                 SliceTo(cards[i].evidence, 3))
                    ELSE cards[i]] \o <<>>
    /\ pc' = "legacy_done"
    /\ UNCHANGED <<firstVars, solutionVars, clusterVars, insightVars,
                   groupVars, storeVars, synthVars>>

\* legacy = LegacyAdapter().convert_to_legacy_pain_points(cards)
CallConvertToLegacy ==
    /\ pc = "legacy"
    /\ legacy' = ConvertToLegacyPainPoints(cards)
    /\ pc' = "legacy_done"
    /\ UNCHANGED <<cards, firstVars, solutionVars, clusterVars, insightVars,
                   groupVars, storeVars,
                   synthVars>>

NextLegacy == CallConvertToLegacy

SpecLegacy == InitLegacy /\ [][NextLegacy]_vars

\* s is the text t cut to at most 100 characters
IsCutOf(s, t) ==
    /\ Len(s) <= 100
    /\ Len(s) = Min2(Len(t), 100)
    /\ \A k \in 1..Len(s) : s[k] = t[k]

\* what C18 says of the pain point p made from the card c
PainPointMatchesCard(p, c) ==
    /\ "label" \in DOMAIN c => p.pain_point = c.label
    /\ "evidence_count" \in DOMAIN c => p.frequency = c.evidence_count
    /\ "severity" \in DOMAIN c =>
          /\ c.severity = "low" => p.intensity = 1
          /\ c.severity = "medium" => p.intensity = 2
          /\ c.severity = "high" => p.intensity = 3
    /\ p.sentiment_impact = "negative"
    /\ Len(p.examples) <= 3
    /\ "evidence" \in DOMAIN c =>
          /\ Len(p.examples) = Min2(3, Len(c.evidence))
          /\ \A k \in 1..Len(p.examples) :
                IsCutOf(p.examples[k], Get(c.evidence[k], "text", <<>>))

\* C18: convert_to_legacy_pain_points maps each card, in input order, to one
\* pain point with pain_point = label, frequency = evidence_count, intensity
\* 1/2/3 for severity low/medium/high, sentiment_impact = 'negative' and at
\* most 3 examples, each cut to at most 100 characters; total_count is the
\* number of cards.
C18_LegacyProjection ==
    pc = "legacy_done" =>
        /\ legacy.total_count = Len(cards)
        /\ Len(legacy.pain_points) = Len(cards)
        /\ \A i \in 1..Len(cards) :
              PainPointMatchesCard(legacy.pain_points[i], cards[i])

\* Scenario D next to a high card: a medium card of 4 spans, whose third
\* example was cut to 100 characters, followed by a high card
C18_Witness ==
    /\ pc = "legacy_done"
    /\ Len(cards) = 2
    /\ \A i \in 1..2 : {"severity", "evidence_count"} \subseteq DOMAIN cards[i]
    /\ cards[1].severity = "medium" /\ legacy.pain_points[1].intensity = 2
    /\ cards[1].evidence_count = 4
    /\ Len(legacy.pain_points[1].examples) = 3
    /\ Len(legacy.pain_points[1].examples[3]) = 100
    /\ cards[2].severity = "high" /\ legacy.pain_points[2].intensity = 3

----------------------------------------------------------------------------
(* EvidencePreservingGrouper  (grouper.py) *)

\* the question dict of a grouped conversation
GroupedQuestion(q) ==
    DictSet(DictSet(DictSet(q,
        "post_id", Get(q, "post_id", None)),
        "post_url", Get(q, "post_url", None)),
        "created_at", Get(q, "created_at", None))

\* a tagged comment that takes nothing from its parent question
TaggedCommentOnItsOwn(c, q) ==
    DictSet(DictSet(DictSet(DictSet(c,
        "post_id", Get(c, "post_id", None)),
        "post_url", Get(c, "post_url", None)),
        "created_at", Get(c, "created_at", None)),
        "original_category", Get(c, "category", "Comment"))

\* the tagged_comment dict built from the comment c of the question q
TaggedComment(c, q) ==
    DictSet(DictSet(DictSet(DictSet(c,
        "post_id", Get(c, "post_id", Get(q, "post_id", None))),
        "post_url", Get(c, "post_url", Get(q, "post_url", None))),
        "created_at", Get(c, "created_at", None)),
        "original_category", Get(c, "category", "Comment"))

\* the grouped_conv dict built from one conversation
GroupedConversation(conv) ==
    LET q == Get(conv, "question", <<>>)
        comments == Get(conv, "comments", <<>>)
    IN  [question |-> GroupedQuestion(q),
         comments |->
            [k \in 1..Len(comments) |-> TaggedComment(comments[k], q)] \o <<>>]

\* EvidencePreservingGrouper.group_conversations
GroupConversations(convs) ==
    [n \in 1..Len(convs) |-> GroupedConversation(convs[n])] \o <<>>

----------------------------------------------------------------------------
(* Inputs and calls of EvidencePreservingGrouper *)

MaxConversations == 1

\* raw questions: without identifiers, or with identifiers and a timestamp
RawQuestions ==
    { [text |-> ThreeWords],
      [text |-> ThreeWords, post_id |-> "q1", post_url |-> "url/q1",
       created_at |-> "t1", category |-> "Question"] }

\* raw comments: bare, with a timestamp only, with an identifier only, or
\* with identifiers, timestamp and category
RawComments ==
    { [text |-> TenWords],
      [text |-> TenWords, created_at |-> "t2"],
      [text |-> TenWords, post_id |-> "c1"],
      [text |-> TenWords, post_id |-> "c2", post_url |-> "url/c2",
       created_at |-> "t3", category |-> "Answer"] }

RawCommentLists == UNION {[1..n -> RawComments] : n \in 0..MaxComments}

RawConversations ==
    {[question |-> q, comments |-> cs] :
        q \in RawQuestions, cs \in RawCommentLists}
    \cup {[comments |-> cs] : cs \in RawCommentLists}
    \cup {[question |-> q] : q \in RawQuestions}

InitGroup ==
    /\ pc = "group"
    /\ conversations
         \in UNION {[1..n -> RawConversations] : n \in 0..MaxConversations}
    /\ grouped = <<>>
    /\ FirstUnused
    /\ SolutionUnused /\ ClusterUnused /\ InsightUnused /\ LegacyUnused
    /\ StoreUnused /\ SynthUnused

\* grouped = EvidencePreservingGrouper().group_conversations(conversations)
CallGroupConversations ==
    /\ pc = "group"
    /\ grouped' = GroupConversations(conversations)
    /\ pc' = "grouped"
    /\ UNCHANGED <<conversations, firstVars, solutionVars, clusterVars,
                   insightVars, legacyVars, storeVars, synthVars>>

NextGroup == CallGroupConversations

SpecGroup == InitGroup /\ [][NextGroup]_vars

\* the value the field f of the output comment o must have, given the input
\* comment c and its parent question q
CarriedOrInherited(o, c, q, f) ==
    o[f] = IF f \in DOMAIN c THEN c[f] ELSE Get(q, f, None)

\* what C19 says of the k-th comment of one conversation
CommentPreserved(o, c, q) ==
    /\ CarriedOrInherited(o, c, q, "post_id")
    /\ CarriedOrInherited(o, c, q, "post_url")
    /\ o.created_at = Get(c, "created_at", None)
    /\ \A f \in DOMAIN c : f \in DOMAIN o /\ o[f] = c[f]

\* C19: in every conversation returned by group_conversations, each comment
\* has the post_id and post_url it carried in the input or, when it carried
\* none, those of its parent question; created_at of the question and of each
\* comment equals the input value; every input comment is present, in input
\* order.
C19_CommentsKeepOrInheritIdentifiers ==
    pc = "grouped" =>
        /\ Len(grouped) = Len(conversations)
        /\ \A n \in 1..Len(conversations) :
              LET q  == Get(conversations[n], "question", <<>>)
                  cs == Get(conversations[n], "comments", <<>>)
              IN  /\ grouped[n].question.created_at
                       = Get(q, "created_at", None)
                  /\ Len(grouped[n].comments) = Len(cs)
                  /\ \A k \in 1..Len(cs) :
                        CommentPreserved(grouped[n].comments[k], cs[k], q)

\* a question with identifiers whose first comment inherits them and whose
\* second comment keeps its own
C19_Witness ==
    /\ pc = "grouped"
    /\ Len(grouped) = 1
    /\ Len(grouped[1].comments) = 2
    /\ "post_id" \notin DOMAIN conversations[1].comments[1]
    /\ grouped[1].comments[1].post_id = "q1"
    /\ grouped[1].comments[1].post_url = "url/q1"
    /\ grouped[1].comments[2].post_id = "c2"
    /\ grouped[1].comments[2].created_at = "t3"

----------------------------------------------------------------------------
(* EmbeddingWrapper and LanceDBManager  (embedding_wrapper.py, plugins,    *)
(* vector_store.py)                                                        *)

\* SentenceTransformersPlugin.__init__: the fields the wrapper exposes
SentenceTransformersPluginInit(config) ==
    [plugin     |-> "sentence_transformers",
     model_name |-> Get(config, "model_name",
                        "sentence-transformers/all-MiniLM-L6-v2"),
     dimension  |-> Get(config, "dimension", 384)]

\* OllamaPlugin.__init__: the fields the wrapper exposes
OllamaPluginInit(config) ==
    [plugin     |-> "ollama",
     model_name |-> Get(config, "model_name", "nomic-embed-text"),
     dimension  |-> Get(config, "dimension", 768)]

\* f"pain_spans_{run_id}"
TableName(run_id) == "pain_spans_" \o run_id

\* f"{self.table_name}_meta"
MetaTableName(table_name) == table_name \o "_meta"

\* LanceDBManager.__init__
LanceDBManagerInit(embedding_wrapper, run_id) ==
    [embedding  |-> embedding_wrapper,
     run_id     |-> run_id,
     table_name |-> TableName(run_id)]

\* a create_table that adds the rows to a table that exists
DbCreateTableAppend(tables, name, data) ==
    DictSet(tables, name, Get(tables, name, <<>>) \o data)

\* db.create_table(name, data, mode="overwrite")
DbCreateTable(tables, name, data) == DictSet(tables, name, data)

\* db.drop_table(name) of a table that exists
DbDropTable(tables, name) == [n \in DOMAIN tables \ {name} |-> tables[n]]

\* LanceDBManager._store_metadata; stored tells whether the create_table of
\* the metadata table succeeded (a failure is swallowed)
StoreMetadata(self, tables, now, stored) ==
    IF stored
    THEN DbCreateTable(tables, MetaTableName(self.table_name),
             << [embedding_model     |-> self.embedding.model_name,
                 embedding_dimension |-> self.embedding.dimension,
                 created_at          |-> now] >>)
    ELSE tables

\* a vector is kept as its width and whether it is all zeros
Vector(width, isZeros) == [width |-> width, zeros |-> isZeros]

\* np.array(embeddings, dtype=np.float32): rows of one width make a matrix
\* (shape[1] is that width), rows of different widths raise ValueError
NpArray(embeddings) ==
    IF \A k \in 1..Len(embeddings) : embeddings[k].width = embeddings[1].width
    THEN [raised |-> FALSE, width |-> embeddings[1].width,
          vectors |-> embeddings]
    ELSE [raised |-> TRUE, width |-> 0, vectors |-> <<>>]

\* OllamaPlugin.encode of a non-empty list; responses[k] is what the request
\* for the k-th text does: it fails with a RequestException, or answers with
\* an embedding of some width
OllamaPluginEncode(self, responses) ==
    NpArray([k \in 1..Len(responses) |->
                IF responses[k].failed
                THEN Vector(self.dimension, TRUE)
                ELSE Vector(responses[k].width, FALSE)] \o <<>>)

\* SentenceTransformersPlugin.encode of a non-empty list; loading or running
\* the model raises, or the model returns one embedding per text
SentenceTransformersPluginEncode(self, responses) ==
    IF \E k \in 1..Len(responses) : responses[k].failed
    THEN [raised |-> TRUE, width |-> 0, vectors |-> <<>>]
    ELSE NpArray([k \in 1..Len(responses) |->
                     Vector(responses[k].width, FALSE)] \o <<>>)

\* EmbeddingWrapper.encode
Encode(self, responses) ==
    IF self.plugin = "ollama" THEN OllamaPluginEncode(self, responses)
    ELSE SentenceTransformersPluginEncode(self, responses)

\* the records written to the span table: each span with its vector
SpanRecords(spanList, vectors) ==
    [k \in 1..Len(spanList) |->
        DictSet(spanList[k], "vector", vectors[k])] \o <<>>

\* a create_table that writes the span table before it validates the width
CreateTableValidatesLate(self, tables, spanList, enc, created, stored, now) ==
    IF spanList = <<>> THEN [db |-> tables, outcome |-> "ValueError"]
    ELSE IF enc.raised \/ ~created
         THEN [db |-> tables, outcome |-> "RuntimeError"]
    ELSE IF enc.width # self.embedding.dimension
         THEN [db |-> DbCreateTable(tables, self.table_name,
                          SpanRecords(spanList, enc.vectors)),
               outcome |-> "RuntimeError"]
    ELSE [db |-> StoreMetadata(self,
                     DbCreateTable(tables, self.table_name,
                         SpanRecords(spanList, enc.vectors)), now, stored),
          outcome |-> "returned"]

\* LanceDBManager.create_table: the tables after the call and how it ended.
\* enc is what embedding.encode does (raise, or return vectors of a width),
\* created tells whether db.create_table succeeded
CreateTable(self, tables, spanList, enc, created, stored, now) ==
    IF spanList = <<>> THEN [db |-> tables, outcome |-> "ValueError"]
    ELSE IF enc.raised THEN [db |-> tables, outcome |-> "RuntimeError"]
    ELSE IF enc.width # self.embedding.dimension
         THEN [db |-> tables, outcome |-> "RuntimeError"]
    ELSE IF ~created THEN [db |-> tables, outcome |-> "RuntimeError"]
    ELSE [db |-> StoreMetadata(self,
                     DbCreateTable(tables, self.table_name,
                         SpanRecords(spanList, enc.vectors)), now, stored),
          outcome |-> "returned"]

\* db.drop_table(name) inside try / except Exception: pass.  The drop raises
\* when the table does not exist, and it may raise for another reason
\* (works tells whether it does not); a drop that raises leaves the tables
\* as they are
TryDropTable(tables, name, works) ==
    IF name \in DOMAIN tables /\ works
    THEN [db |-> DbDropTable(tables, name),
          attempt |-> [table |-> name, raised |-> FALSE]]
    ELSE [db |-> tables, attempt |-> [table |-> name, raised |-> TRUE]]

\* a cleanup whose two drops share one try block
CleanupInOneTry(self, tables, works1, works2) ==
    LET first  == TryDropTable(tables, self.table_name, works1)
        second == TryDropTable(first.db, MetaTableName(self.table_name),
                               works2)
    IN  IF first.attempt.raised
        THEN [db |-> first.db, outcome |-> "returned",
              drops |-> <<first.attempt>>]
        ELSE [db |-> second.db, outcome |-> "returned",
              drops |-> <<first.attempt, second.attempt>>]

\* LanceDBManager.cleanup: the span table is dropped, then the metadata
\* table, each in its own try block whose except clause swallows every
\* Exception
Cleanup(self, tables, works1, works2) ==
    LET first  == TryDropTable(tables, self.table_name, works1)
        second == TryDropTable(first.db, MetaTableName(self.table_name),
                               works2)
    IN  [db |-> second.db, outcome |-> "returned",
         drops |-> <<first.attempt, second.attempt>>]

----------------------------------------------------------------------------
(* Inputs and calls of LanceDBManager *)

MaxCalls == 2

\* run_id is any str: two unrelated identifiers, and one that is another
\* identifier followed by "_meta"
RunIds == {"r1", "r2", "r1_meta"}

EmbeddingWrappers ==
    {SentenceTransformersPluginInit(<<>>), OllamaPluginInit(<<>>)}

\* the span lists handed to create_table
StoreSpanLists ==
    { <<>>,
      <<[text |-> ThreeWords]>>,
      <<[text |-> ThreeWords], [text |-> TenWords]>> }

\* what the backend does with the request for one text: it fails, or answers
\* with an embedding of the width of the model that serves it
Responses ==
    {[failed |-> TRUE, width |-> 0]}
    \cup {[failed |-> FALSE, width |-> w] : w \in {384, 768}}

\* the responses to the requests for n texts
ResponseLists(n) == [1..n -> Responses]

InitStore ==
    /\ pc = "store"
    /\ \E e \in EmbeddingWrappers :
          managers = [r \in RunIds |-> LanceDBManagerInit(e, r)]
    /\ db = <<>>
    /\ clock = 0
    /\ lastCall = [run |-> "", op |-> "none", encoded |-> "not_called",
                   width |-> 0, outcome |-> "none", drops |-> <<>>]
    /\ runState = [r \in RunIds |-> "running"]
    /\ FirstUnused
    /\ SolutionUnused /\ ClusterUnused /\ InsightUnused /\ LegacyUnused
    /\ GroupUnused /\ SynthUnused

\* managers[r].create_table(spans)
CallCreateTable ==
    /\ pc = "store"
    /\ clock < MaxCalls
    /\ \E r \in RunIds, spanList \in StoreSpanLists,
          created \in BOOLEAN, stored \in BOOLEAN :
        \E responses \in ResponseLists(Len(spanList)) :
          LET enc    == IF spanList = <<>>
                        THEN [raised |-> FALSE, width |-> 0, vectors |-> <<>>]
                        ELSE Encode(managers[r].embedding, responses)
              result == CreateTable(managers[r], db, spanList, enc, created,
                                    stored, clock)
          IN  /\ runState[r] = "running"
              /\ db' = result.db
              /\ lastCall' =
                   [run     |-> r,
                    op      |-> "create_table",
                    encoded |-> IF spanList = <<>> THEN "not_called"
                                ELSE IF enc.raised THEN "raised"
                                ELSE "vectors",
                    width   |-> IF spanList = <<>> THEN 0 ELSE enc.width,
                    outcome |-> result.outcome,
                    drops   |-> <<>>,
                    spans   |-> spanList,
                    vectors |-> enc.vectors,
                    stored  |-> stored,
                    failed  |-> \E k \in 1..Len(spanList) :
                                    responses[k].failed,
                    repeats |-> /\ lastCall.op = "create_table"
                                /\ lastCall.run = r
                                /\ lastCall.outcome = "returned"
                                /\ lastCall.spans = spanList
                                /\ lastCall.vectors = enc.vectors
                                /\ lastCall.stored = stored
                                /\ result.outcome = "returned"]
    /\ clock' = clock + 1
    /\ UNCHANGED <<pc, managers, runState, firstVars, solutionVars,
                   clusterVars, insightVars, legacyVars, groupVars,
                   synthVars>>

\* managers[r].cleanup()
CallCleanup ==
    /\ pc = "store"
    /\ clock < MaxCalls
    /\ \E r \in RunIds, works1 \in BOOLEAN, works2 \in BOOLEAN :
          LET result == Cleanup(managers[r], db, works1, works2)
          IN  /\ runState[r] = "running"
              /\ db' = result.db
              /\ lastCall' = [run |-> r, op |-> "cleanup",
                              encoded |-> "not_called", width |-> 0,
                              outcome |-> result.outcome,
                              drops |-> result.drops]
    /\ clock' = clock + 1
    /\ UNCHANGED <<pc, managers, runState, firstVars, solutionVars,
                   clusterVars, insightVars, legacyVars, groupVars,
                   synthVars>>

\* a later stage of the run of instance r raises: process_conversations has
\* no handler, the exception reaches the except clause of the command, which
\* prints it, and the run is over
AbortRun ==
    /\ pc = "store"
    /\ \E r \in RunIds :
          /\ runState[r] = "running"
          /\ runState' = [runState EXCEPT ![r] = "aborted"]
          /\ lastCall' = [run |-> r, op |-> "abort", encoded |-> "not_called",
                          width |-> 0, outcome |-> "printed",
                          drops |-> <<>>]
    /\ UNCHANGED <<pc, managers, db, clock, firstVars, solutionVars,
                   clusterVars, insightVars, legacyVars, groupVars,
                   synthVars>>

NextStore == CallCreateTable \/ CallCleanup \/ AbortRun

SpecStore == InitStore /\ [][NextStore]_vars

\* the last call was a create_table whose vectors did not have the width
\* the backend declares
WidthMismatch(call) ==
    /\ call.op = "create_table"
    /\ call.encoded = "vectors"
    /\ call.width # managers[call.run].embedding.dimension

\* C20: if the vectors produced by encode during create_table have a width
\* different from the backend's declared dimension, create_table fails with an
\* error and neither the run's span table nor its metadata table is created or
\* overwritten by that call.
C20_MismatchFailsAndWritesNothing ==
    [][ (clock' # clock /\ WidthMismatch(lastCall'))
          => (lastCall'.outcome = "RuntimeError" /\ db' = db) ]_vars

\* a create_table with a width mismatch has just failed while the run's span
\* table and metadata table of an earlier call are in the database
C20_Witness ==
    /\ pc = "store"
    /\ WidthMismatch(lastCall)
    /\ lastCall.outcome = "RuntimeError"
    /\ TableName(lastCall.run) \in DOMAIN db
    /\ MetaTableName(TableName(lastCall.run)) \in DOMAIN db

\* the span table and the metadata table of a run
TablesOfRun(r) == {TableName(r), MetaTableName(TableName(r))}

\* the tables of the runs other than r
TablesOfOtherRuns(r) == UNION {TablesOfRun(o) : o \in RunIds \ {r}}

\* the part of the database that belongs to the runs other than r
OthersPart(tables, r) ==
    Restrict(tables, DOMAIN tables \cap TablesOfOtherRuns(r))

\* C21: for two LanceDBManager instances on the same database whose run
\* identifiers are distinct, no create_table or cleanup call of one run
\* creates, overwrites or drops the span table or the metadata table of the
\* other run.
C21_DistinctRunsDoNotInterfere ==
    [][ clock' # clock
          => OthersPart(db', lastCall'.run) = OthersPart(db, lastCall'.run)
      ]_vars

\* the step is the abort of a run whose last call, a create_table, returned
IsAbortAfterCreateTable ==
    /\ lastCall'.op = "abort"
    /\ lastCall.op = "create_table"
    /\ lastCall.run = lastCall'.run
    /\ lastCall.outcome = "returned"

\* C22: in every run that has created its vector-store table, if the run is
\* aborted mid-way (a later stage fails), cleanup() is still executed, so
\* that when the run ends its ephemeral table no longer exists.
C22_AbortedRunLeavesNoTable ==
    [][ IsAbortAfterCreateTable
          => TableName(lastCall'.run) \notin DOMAIN db' ]_vars

\* the step is a cleanup call
IsCleanupCall == clock' # clock /\ lastCall'.op = "cleanup"

IsRepeatedCreateTable ==
    clock' # clock /\ lastCall'.op = "create_table" /\ lastCall'.repeats

WithoutCreatedAt(rows) ==
    [k \in 1..Len(rows) |->
        Restrict(rows[k], DOMAIN rows[k] \ {"created_at"})] \o <<>>

IsCreateTableWithFailedEmbedding ==
    clock' # clock /\ lastCall'.op = "create_table" /\ lastCall'.failed

\* C27: when the embedding endpoint is unavailable or times out, the failure
\* is detected before clustering: create_table fails and no vector is stored
\* for the texts (so none can be read back and clustered).
C27_EmbeddingFailureStoresNothing ==
    [][ IsCreateTableWithFailedEmbedding
          => (lastCall'.outcome = "RuntimeError" /\ db' = db) ]_vars

----------------------------------------------------------------------------
(* OllamaLLMSynthesizer  (llm_synthesizer.py)                              *)

\* an Optional[str]: None, or a str
NoText == [isNone |-> TRUE, value |-> <<>>]

SomeText(txt) == [isNone |-> FALSE, value |-> txt]

\* the value is truthy: neither None nor ''
Truthy(opt) == ~opt.isNone /\ opt.value # <<>>

\* OllamaLLMSynthesizer.__init__
OllamaLLMSynthesizerInit(config) ==
    [base_url     |-> Get(config, "ollama_base_url", "http://localhost:11434"),
     model        |-> Get(config, "model", "smollm2:360m"),
     max_clusters |-> Get(config, "max_clusters_to_synthesize", 20),
     temperature  |-> Get(config, "synthesis_temperature", Frac(3, 10))]

\* the kinds of answer to requests.post that make a statement of the try
\* block raise: the post itself (connection error, timeout),
\* raise_for_status (HTTP error), response.json() (malformed body),
\* data.get (the body is not an object), .strip() (the response is not a str)
RaisingKinds == {"connection_error", "timeout", "http_error", "bad_json",
                 "not_object", "response_null"}

\* OllamaLLMSynthesizer._call_ollama: what it returns for an answer
CallOllama(response) ==
    IF response.kind \in RaisingKinds THEN NoText
    ELSE IF response.kind = "no_response_key" THEN SomeText(Strip(<<>>))
    ELSE SomeText(Strip(response.text))

\* str.split(sep) for a separator of one character
RECURSIVE Split(_, _)
Split(s, sep) ==
    IF \A i \in 1..Len(s) : s[i] # sep THEN <<s>>
    ELSE LET i == CHOOSE i \in 1..Len(s) :
                     s[i] = sep /\ \A j \in 1..(i - 1) : s[j] # sep
         IN  <<SubSeq(s, 1, i - 1)>> \o Split(SubSeq(s, i + 1, Len(s)), sep)

\* [q.strip() for q in lines if q.strip()]
RECURSIVE StrippedNonEmpty(_)
StrippedNonEmpty(lines) ==
    IF lines = <<>> THEN <<>>
    ELSE (IF Strip(Head(lines)) # <<>> THEN <<Strip(Head(lines))>> ELSE <<>>)
         \o StrippedNonEmpty(Tail(lines))

\* generate_cluster_label: requested tells whether a request was sent
GenerateClusterLabel(self, cluster_items, response) ==
    IF cluster_items = <<>>
    THEN [requested |-> FALSE, outcome |-> "returned", value |-> NoText]
    ELSE LET label == CallOllama(response)
         IN  [requested |-> TRUE, outcome |-> "returned",
              value |-> IF Truthy(label) THEN SomeText(Strip(label.value))
                        ELSE NoText]

\* generate_why_it_matters
GenerateWhyItMatters(self, response) ==
    LET text == CallOllama(response)
    IN  [requested |-> TRUE, outcome |-> "returned",
         value |-> IF Truthy(text) THEN SomeText(Strip(text.value))
                   ELSE NoText]

\* a generate_open_questions that returns every line
GenerateOpenQuestionsUncut(self, response) ==
    LET text == CallOllama(response)
    IN  [requested |-> TRUE, outcome |-> "returned",
         value |-> IF ~Truthy(text) THEN <<>>
                   ELSE StrippedNonEmpty(Split(Strip(text.value), "\n"))]

\* generate_open_questions
GenerateOpenQuestions(self, response) ==
    LET text == CallOllama(response)
    IN  [requested |-> TRUE, outcome |-> "returned",
         value |-> IF ~Truthy(text) THEN <<>>
                   ELSE SliceTo(StrippedNonEmpty(
                                    Split(Strip(text.value), "\n")), 3)]

----------------------------------------------------------------------------
(* Inputs and calls of OllamaLLMSynthesizer *)

MaxClusters == 3

SynthConfigs ==
    { <<>>,
      [max_clusters_to_synthesize |-> 1],
      [max_clusters_to_synthesize |-> 2] }

\* the items of a cluster
ClusterItemLists ==
    { <<>>, <<[text |-> ThreeWords]>>, <<[id |-> 1], [text |-> TenWords]>> }

\* "Slow app"
OneLine ==
    <<"S", "l", "o", "w", " ", "a", "p", "p">>

\* " Why?\n\nWho? \nWhen?\nHow?\n": five lines, four of them questions
FourQuestions ==
    <<" ", "W", "h", "y", "?", "\n", "\n", "W", "h", "o", "?", " ", "\n", "W",
      "h", "e", "n", "?", "\n", "H", "o", "w", "?", "\n">>

\* the answers of the generation endpoint
OllamaResponses ==
    {[kind |-> k, text |-> <<>>] : k \in RaisingKinds \cup {"no_response_key"}}
    \cup {[kind |-> "text", text |-> t] :
              t \in {<<>>, <<" ", "\n">>, OneLine, FourQuestions}}

InitSynth ==
    /\ pc = "synth"
    /\ \E config \in SynthConfigs : synth = OllamaLLMSynthesizerInit(config)
    /\ synthesized = {}
    /\ synthResult = [method |-> "none", cluster |-> 0, kind |-> "none",
                      answer |-> <<>>, requested |-> FALSE, outcome |-> "none",
                      value |-> NoText]
    /\ FirstUnused
    /\ SolutionUnused /\ ClusterUnused /\ InsightUnused /\ LegacyUnused
    /\ GroupUnused /\ StoreUnused

\* what a call of the synthesizer for cluster c leaves behind
SynthCalled(method, c, response, result) ==
    /\ synthResult' = [method |-> method, cluster |-> c,
                       kind |-> response.kind, answer |-> response.text,
                       requested |-> result.requested,
                       outcome |-> result.outcome, value |-> result.value]
    /\ synthesized' = IF result.requested THEN synthesized \cup {c}
                      ELSE synthesized
    /\ UNCHANGED <<pc, synth, firstVars, solutionVars, clusterVars,
                   insightVars, legacyVars, groupVars, storeVars>>

\* synth.generate_cluster_label(items) for cluster c
CallGenerateClusterLabel ==
    /\ pc = "synth"
    /\ \E c \in 1..MaxClusters, cluster_items \in ClusterItemLists,
          response \in OllamaResponses :
          SynthCalled("generate_cluster_label", c, response,
                      GenerateClusterLabel(synth, cluster_items, response))

\* synth.generate_why_it_matters(label, size) for cluster c
CallGenerateWhyItMatters ==
    /\ pc = "synth"
    /\ \E c \in 1..MaxClusters, response \in OllamaResponses :
          SynthCalled("generate_why_it_matters", c, response,
                      GenerateWhyItMatters(synth, response))

\* synth.generate_open_questions(label) for cluster c
CallGenerateOpenQuestions ==
    /\ pc = "synth"
    /\ \E c \in 1..MaxClusters, response \in OllamaResponses :
          SynthCalled("generate_open_questions", c, response,
                      GenerateOpenQuestions(synth, response))

NextSynth ==
    \/ CallGenerateClusterLabel
    \/ CallGenerateWhyItMatters
    \/ CallGenerateOpenQuestions

SpecSynth == InitSynth /\ [][NextSynth]_vars

\* C25: over a run, the synthesizer sends generation requests for at most
\* max_clusters_to_synthesize clusters; for a cluster beyond that cap no
\* request is sent.
C25_RequestsWithinClusterCap ==
    pc = "synth" => Cardinality(synthesized) <= synth.max_clusters

\* the generation call failed: a statement of _call_ollama raised, or the
\* answer holds no text
CallFailed(result) ==
    /\ result.requested
    /\ \/ result.kind \in RaisingKinds
       \/ result.kind = "no_response_key"
       \/ result.kind = "text" /\ Strip(result.answer) = <<>>

\* C26: when the call to the generative model fails, generate_cluster_label
\* and generate_why_it_matters return None and generate_open_questions returns
\* an empty list; none of the three raises, and generate_open_questions never
\* returns more than 3 questions.
C26_FailureDegradesToNoneOrEmpty ==
    pc = "synth" =>
        /\ synthResult.outcome \in {"none", "returned"}
        /\ CallFailed(synthResult)
             => IF synthResult.method = "generate_open_questions"
                THEN synthResult.value = <<>>
                ELSE synthResult.value = NoText
        /\ synthResult.method = "generate_open_questions"
             => Len(synthResult.value) <= 3

\* generate_cluster_label of a non-empty cluster has returned None after the
\* request ran into a timeout
C26_Witness ==
    /\ pc = "synth"
    /\ synthResult.method = "generate_cluster_label"
    /\ synthResult.requested
    /\ synthResult.kind = "timeout"
    /\ synthResult.outcome = "returned"
    /\ synthResult.value = NoText

----------------------------------------------------------------------------
(* The stages that run after grouping *)

\* a stage is handed its input: cards, spans, a conversation, a question or
\* a text
InitStages ==
    InitLegacy \/ InitInsight \/ InitSolution \/ InitExtract \/ InitClassify

NextStages ==
    NextLegacy \/ NextInsight \/ NextSolution \/ NextExtract \/ NextClassify

SpecStages == InitStages /\ [][NextStages]_vars

\* C30: no stage that runs after grouping changes what it is handed:
\* extract_spans leaves the question as it was, the classifiers the text and
\* the spans, extract_solutions the conversation with its question and
\* comments, generate_insight_card the spans, and
\* convert_to_legacy_pain_points the cards.
C30_StagesLeaveInputsUnchanged ==
    [][ /\ question' = question
        /\ pc \in {"extracted", "classified"} => spans' = spans
        /\ classifyText' = classifyText
        /\ conversation' = conversation
        /\ evidence' = evidence
        /\ cards' = cards ]_vars

\* the adapter has taken three examples, cut to 100 characters, from a card
\* that still holds its four spans, the text of the last of them in full
C30_Witness ==
    /\ pc = "legacy_done"
    /\ Len(cards) >= 1
    /\ "evidence" \in DOMAIN cards[1]
    /\ Len(cards[1].evidence) = 4
    /\ Len(cards[1].evidence[3].text) > 100
    /\ Len(legacy.pain_points[1].examples) = 3
    /\ Len(legacy.pain_points[1].examples[3]) = 100

====
